---- MODULE Spec2Model ----
(***************************************************************************)
(* LatchController (v3.0.0): a channel-indexed logical state, a trigger    *)
(* mode (polarity) applied when the state is sent to a LatchDriver, and a  *)
(* lazily created FreeRTOS mutex around the mutating calls.                *)
(*                                                                         *)
(* A uint32_t is the set of its set bit positions (a subset of 0..31), so  *)
(* that |, &, ^ and ~ keep their 32-bit width exactly.                     *)
(* Every call of every task is cut into steps of one shared access each.   *)
(***************************************************************************)
EXTENDS Integers, FiniteSets, Sequences, TLC

\* ----------------------------------------------------------------- bounds
NumTasks == 3
MaxToggles == 2
MaxMutexes == 2
MaxCalls == 3

\* ------------------------------------------------------ program constants
MaxChannels == 32
UINT8_MAX == 255

ACTIVE_HIGH == "ACTIVE_HIGH"
ACTIVE_LOW == "ACTIVE_LOW"
LatchTriggerMode == {ACTIVE_HIGH, ACTIVE_LOW}

nullptr == 0
NoTask == nullptr
\* The tasks of the concurrent runs, and those of the toggle scenario
Tasks == {1, 2}
ToggleTasks == 1..NumTasks
AllTasks == Tasks \cup ToggleTasks
MainTask == CHOOSE t \in Tasks : \A u \in Tasks : t <= u

\* ------------------------------------------------------- 32-bit words
Bits == 0..(MaxChannels - 1)

Min(a, b) == IF a < b THEN a ELSE b

\* ~w on a uint32_t
Not32(w) == Bits \ w

\* a ^ b on uint32_t
Xor32(a, b) == (a \ b) \cup (b \ a)

\* The values 1UL << k can take. unsigned long has 32 bits on the ESP32: a
\* shift by 32 is undefined; the builds give 0 (the bit is shifted out) or
\* 1 (the count is taken modulo 32).
Shl1(k) == IF k < MaxChannels THEN {{k}} ELSE {{}, {0}}

\* w - 1 on a uint32_t (0 - 1 wraps to 0xFFFFFFFF)
Dec32(w) ==
    IF w = {} THEN Bits
    ELSE LET l == CHOOSE i \in w : \A j \in w : i <= j
         IN (w \ {l}) \cup {i \in Bits : i < l}

\* (1UL << channelCount) - 1, every value it can take
ChannelMasks(cc) == {Dec32(s) : s \in Shl1(cc)}

\* The low n bits of a word
LowBits(w, n) == {i \in w : i < n}

\* Mutant: the trigger mode is not applied to the value sent
OutputData_noInversion(mode, state) == state

\* Mutant: the polarity test is the wrong way round
OutputData_wrongMode(mode, state) == IF mode = ACTIVE_HIGH THEN Not32(state) ELSE state

\* outputData = (triggerMode == ACTIVE_LOW) ? ~currentState : currentState
OutputData(mode, state) == IF mode = ACTIVE_LOW THEN Not32(state) ELSE state

VARIABLES
    driver,         \* the LatchDriver* given to the constructor: "nullptr", "drv" (a
                    \* driver left abstract), "shift" or "direct" (the two drivers)
    channelCount,   \* uint8_t, set by the constructor
    currentState,   \* uint32_t logical state
    triggerMode,    \* LatchTriggerMode
    initialized,    \* bool
    lock,           \* SemaphoreHandle_t: nullptr (0) or the id of a mutex
    mutexes,        \* number of mutexes created so far
    holder,         \* holder[m]: the task holding mutex m, or NoTask
    fault,          \* the program has crashed (null dereference, failed assert)
    hwData,         \* <<>>, or <<data, n>> of the last updateHardware call
    lastInit,       \* what the last driver.init() returned: "none", "true", "false"
    pc,             \* pc[t]: where task t is in its current call
    op,             \* op[t]: the operation task t is calling
    arg,            \* arg[t]: its arguments
    tmp,            \* tmp[t]: the value of currentState loaded by a |=, &= or ^=
    outputData,     \* outputData[t]: the local of that name
    initOk,         \* initOk[t]: what driver->init() returned to begin()
    ret,            \* ret[t]: <<>> (void / not returned) or <<value>>
    calls,          \* calls[t]: the driver calls made by task t's current call
    entry,          \* entry[t]: the controller's fields when the call began
    harness,        \* the test harness of the toggle scenario
    srLatch,        \* ShiftRegisterDriver: latchPin != 0xFF
    srOe,           \* ShiftRegisterDriver: oePin != 0xFF
    pinOutput,      \* the pins configured by pinMode(pin, OUTPUT)
    pinLevel,       \* pinLevel[pin]: the level last written, "Z" before any write
    shiftReg,       \* the stages of the shift register that are HIGH (stage i drives Qi)
    outReg,         \* the bits of the storage (output) register that are HIGH
    srPc,           \* where the driver is in init() or updateHardware()
    srI,            \* the loop counter i
    srData,         \* updateHardware's data argument
    srWrites,       \* the digitalWrite calls of the current driver call, in order
    srInited,       \* init() has returned
    srRendered,     \* updateHardware() has been called
    numChannels,    \* DirectLatchDriver: the number of data lines it was given
    dlOutput,       \* DirectLatchDriver: the pins configured by pinMode(pin, OUTPUT)
    dlEnable,       \* the level last written to the enable pin, "Z" before any write
    dlLevel,        \* dlLevel[i]: the level last written to data line i
    dlLatched,      \* the latch outputs Qi that are HIGH
    dlPc,           \* where the driver is in init() or updateHardware()
    dlI,            \* the loop counter i
    dlData,         \* updateHardware's data argument
    dlWrites,       \* the digitalWrite calls of the current driver call, in order
    dlInited,       \* init() has returned
    dlRendered,     \* updateHardware() has been called
    rcState,        \* ESP32_RelayController: currentState, the bits that are set
    rcMode,         \* its triggerMode
    rcInitialized,  \* its initialized
    rcLock,         \* its lock: nullptr, or the mutex with the task holding it
    rcOut,          \* the byte the last updateHardware() shifted out
    rcPc,           \* rcPc[t]: where task t is in its call
    rcOp,           \* rcOp[t]: the call task t is in
    rcChannel,      \* rcChannel[t]: its channel argument
    rcTmp,          \* rcTmp[t]: the currentState task t has read
    rcDone,         \* rcDone[t]: the calls task t has completed
    rcLast,         \* rcLast[t]: the last of setRelayOn / setRelayOff task t completed
    rcHarness,      \* the scenario of the run and the state it started from
    webMax,         \* ESP32_AsyncWebController: _maxChannels
    webControl,     \* _controlCallback is set
    webState,       \* _stateCallback is set
    webAll,         \* _allStatesCallback is set
    webClients,     \* the WebSocket clients connected
    webInbox,       \* webInbox[c]: the text messages sent to client c, in order
    webSeeded,      \* webSeeded[c]: _allStatesCallback was set when c connected
    webReq,         \* the last request or frame handled
    webResp,        \* the answer to it
    webCalls,       \* the callbacks, broadcasts and 200 response made while handling it
    inoMutex,       \* RelayControllerIntegration: the task holding relayMutex
    inoPc           \* inoPc[t]: where task t of the sketch is

shared == <<driver, channelCount, currentState, triggerMode, initialized,
            lock, mutexes, holder, fault, hwData, lastInit>>
locals == <<pc, op, arg, tmp, outputData, initOk, ret, calls, entry>>
srVars == <<srLatch, srOe, pinOutput, pinLevel, shiftReg, outReg, srPc, srI,
            srData, srWrites, srInited, srRendered>>
dlVars == <<numChannels, dlOutput, dlEnable, dlLevel, dlLatched, dlPc, dlI, dlData,
            dlWrites, dlInited, dlRendered>>
rcVars == <<rcState, rcMode, rcInitialized, rcLock, rcOut, rcPc, rcOp, rcChannel, rcTmp,
            rcDone, rcLast, rcHarness>>
webVars == <<webMax, webControl, webState, webAll, webClients, webInbox, webSeeded,
             webReq, webResp, webCalls, inoMutex, inoPc>>
vars == <<shared, locals, harness, srVars, dlVars, rcVars, webVars>>

\* No record of the fields at the call
NoEntry == [currentState |-> {}, triggerMode |-> ACTIVE_HIGH, initialized |-> FALSE]

NoArg == [channel |-> 0, state |-> FALSE, mask |-> {}, mode |-> ACTIVE_HIGH]

\* The constructor arguments tried: LatchController(drv, channels)
ChannelArgs == {0, 2, 8, 40}
DriverArgs == {"drv", "nullptr"}

\* The channel counts of the concurrent runs
ConcChannelArgs == {2}

\* The constructor argument of the toggle scenario
ToggleChannelArg == 2

\* LatchController::LatchController
Constructor(drv, channels) ==
    /\ driver = drv
    /\ channelCount = Min(channels, MaxChannels)
    /\ currentState = {}
    /\ triggerMode = ACTIVE_HIGH
    /\ initialized = FALSE
    /\ lock = nullptr

InitRest ==
    /\ mutexes = 0
    /\ holder = [m \in 1..MaxMutexes |-> NoTask]
    /\ fault = FALSE
    /\ hwData = <<>>
    /\ lastInit = "none"
    /\ pc = [t \in AllTasks |-> "idle"]
    /\ op = [t \in AllTasks |-> "none"]
    /\ arg = [t \in AllTasks |-> NoArg]
    /\ tmp = [t \in AllTasks |-> {}]
    /\ outputData = [t \in AllTasks |-> {}]
    /\ initOk = [t \in AllTasks |-> FALSE]
    /\ ret = [t \in AllTasks |-> <<>>]
    /\ calls = [t \in AllTasks |-> <<>>]
    /\ entry = [t \in AllTasks |-> NoEntry]

NoHarness == [phase |-> "off", budget |-> 0, channel |-> 0, initial |-> FALSE,
              n |-> 0, m |-> 0,
              remaining |-> [t \in AllTasks |-> 0]]

\* ------------------------------------------- ShiftRegisterDriver: its state
HIGH == "HIGH"
LOW == "LOW"
Pins == {"data", "clock", "latch", "oe"}

\* The 8 bits init() shifts in
InitShifts == 8

\* The driver is not running and nothing has been written to its pins
SrQuiet ==
    /\ pinOutput = {}
    /\ pinLevel = [p \in Pins |-> "Z"]
    /\ srPc = "idle"
    /\ srI = 0
    /\ srData = {}
    /\ srWrites = <<>>
    /\ srInited = FALSE
    /\ srRendered = FALSE

\* The runs that leave the driver abstract (init() returns true or false,
\* updateHardware() receives a value)
SrIdle ==
    /\ srLatch = FALSE /\ srOe = FALSE
    /\ shiftReg = {} /\ outReg = {}
    /\ SrQuiet

\* --------------------------------------------- DirectLatchDriver: its state
\* The data lines of the driver-only runs' largest driver; a controller
\* drives at most MaxChannels lines
MaxLines == 4
Lines == 0..(MaxChannels - 1)

\* The driver is not running and nothing has been written to its pins
DlQuiet ==
    /\ dlOutput = [enable |-> FALSE, lines |-> {}]
    /\ dlEnable = "Z"
    /\ dlLevel = [i \in Lines |-> "Z"]
    /\ dlPc = "idle"
    /\ dlI = 0
    /\ dlData = {}
    /\ dlWrites = <<>>
    /\ dlInited = FALSE
    /\ dlRendered = FALSE

\* The runs without a DirectLatchDriver
DlIdle ==
    /\ numChannels = 0
    /\ dlLatched = {}
    /\ DlQuiet

\* ----------------------------------------- ESP32_RelayController: its state
MAX_RELAY_CHANNELS == 8
HIGH_TRIGGER == "HIGH_TRIGGER"
LOW_TRIGGER == "LOW_TRIGGER"
RelayBits == 0..(MAX_RELAY_CHANNELS - 1)
\* The tasks calling the relay controller
MaxRelayTasks == 2
RelayTasks == 1..MaxRelayTasks

\* No run of the relay controller
NoRelayHarness == [scenario |-> "off", tasks |-> 0, calls |-> 0, channel |-> 0,
                   initial |-> FALSE]

\* ESP32_RelayController::ESP32_RelayController, no task in a call
RcConstructor ==
    /\ rcState = {}
    /\ rcMode = HIGH_TRIGGER
    /\ rcInitialized = FALSE
    /\ rcLock = [created |-> FALSE, holder |-> NoTask]
    /\ rcOut = {}
    /\ rcPc = [t \in RelayTasks |-> "idle"]
    /\ rcOp = [t \in RelayTasks |-> "none"]
    /\ rcChannel = [t \in RelayTasks |-> 0]
    /\ rcTmp = [t \in RelayTasks |-> {}]
    /\ rcDone = [t \in RelayTasks |-> 0]
    /\ rcLast = [t \in RelayTasks |-> "none"]

\* The runs without an ESP32_RelayController
RcIdle ==
    /\ RcConstructor
    /\ rcHarness = NoRelayHarness

\* -------------------------------------- ESP32_AsyncWebController: its state
\* The WebSocket clients of the runs, and the messages kept of each
MaxInbox == 2
WsClients == {1, 2}

NoReq == [route |-> "none", hasChannel |-> FALSE, hasState |-> FALSE, text |-> <<>>,
          value |-> 0, state |-> FALSE]
NoResp == [code |-> 0, error |-> ""]

\* ESP32_AsyncWebController::ESP32_AsyncWebController: no callback, no client
WebQuiet ==
    /\ webControl = FALSE
    /\ webState = FALSE
    /\ webAll = FALSE
    /\ webClients = {}
    /\ webInbox = [c \in WsClients |-> <<>>]
    /\ webSeeded = [c \in WsClients |-> FALSE]
    /\ webReq = NoReq
    /\ webResp = NoResp
    /\ webCalls = <<>>
    /\ inoMutex = NoTask
    /\ inoPc = [t \in Tasks |-> "off"]

\* The runs without an ESP32_AsyncWebController
WebIdle ==
    /\ webMax = 0
    /\ WebQuiet

Init ==
    /\ \E drv \in DriverArgs, channels \in ChannelArgs : Constructor(drv, channels)
    /\ InitRest
    /\ harness = NoHarness
    /\ SrIdle
    /\ DlIdle
    /\ RcIdle
    /\ WebIdle

\* ------------------------------------------------------------- helpers
Goto(t, label) == pc' = [pc EXCEPT ![t] = label]

\* return v; from a bool function, or the end of a void one (v = <<>>)
Finish(t, v) ==
    /\ pc' = [pc EXCEPT ![t] = "ret"]
    /\ ret' = [ret EXCEPT ![t] = v]

\* Mutant: takeLock() does not take the mutex
takeLock_noLock(t, next) == Goto(t, next) /\ UNCHANGED holder

\* LatchController::takeLock, then continue at next
takeLock(t, next) ==
    /\ IF lock = nullptr
       THEN UNCHANGED holder
       ELSE /\ holder[lock] = NoTask
            /\ holder' = [holder EXCEPT ![lock] = t]
    /\ Goto(t, next)

\* What xSemaphoreGive(lock) can do to the mutex: a mutex that is free stays
\* free (the give fails); the holder's give frees it; a give by another
\* task frees it too, or stops at FreeRTOS's configASSERT on the holder.
giveLock(t) ==
    IF lock = nullptr \/ holder[lock] = NoTask
    THEN UNCHANGED <<holder, fault>>
    ELSE IF holder[lock] = t
    THEN holder' = [holder EXCEPT ![lock] = NoTask] /\ UNCHANGED fault
    ELSE \/ holder' = [holder EXCEPT ![lock] = NoTask] /\ UNCHANGED fault
         \/ fault' = TRUE /\ UNCHANGED holder

\* uint32_t outputData = (triggerMode == ACTIVE_LOW) ? ~currentState : currentState;
computeOutput(t, next) ==
    /\ outputData' = [outputData EXCEPT ![t] = OutputData(triggerMode, currentState)]
    /\ Goto(t, next)

\* driver->updateHardware(outputData, channelCount): the call enters the driver
enterUpdateHardware(t, next) ==
    IF driver = "nullptr"
    THEN /\ fault' = TRUE
         /\ UNCHANGED <<hwData, calls, pc>>
    ELSE /\ hwData' = <<outputData[t], channelCount>>
         /\ calls' = [calls EXCEPT ![t] = Append(@, <<"updateHardware", outputData[t], channelCount>>)]
         /\ Goto(t, next)
         /\ UNCHANGED fault

\* The caller's side of a call. The one-task runs record the controller's
\* fields at the call; the concurrent runs take the call from their budget;
\* the toggle scenario's setup runs before the tasks are started and its
\* tasks take the call from their own count.
StartCall(t, in) ==
    /\ entry' = [entry EXCEPT ![t] =
                    IF in = "seq"
                    THEN [currentState |-> currentState, triggerMode |-> triggerMode,
                          initialized |-> initialized]
                    ELSE NoEntry]
    /\ IF in = "conc"
       THEN /\ harness.budget > 0
            /\ harness' = [harness EXCEPT !.budget = @ - 1]
       ELSE IF in = "toggle"
       THEN /\ harness.phase = "run"
            /\ harness.remaining[t] > 0
            /\ harness' = [harness EXCEPT !.remaining[t] = @ - 1]
       ELSE IF in = "setup"
       THEN harness.phase = "setup" /\ UNCHANGED harness
       ELSE UNCHANGED harness

\* task t is idle and the program runs
Idle(t) == ~fault /\ pc[t] = "idle"

\* task t is at label in operation o and the program runs
At(t, o, label) == ~fault /\ pc[t] = label /\ op[t] = o


\* ------------------------------------------------------ inputs of the calls
\* uint8_t channel arguments of the one-task runs: the first two, the last
\* valid one, the first invalid one and the largest uint8_t
Channels ==
    {c \in {0, 1, channelCount - 1, channelCount, UINT8_MAX} : c >= 0 /\ c <= UINT8_MAX}

\* uint32_t mask arguments: 0b1010, a mask with a bit past 8 channels, all ones
Masks == {{1, 3}, {0, 9}, Bits}

\* The callers: "seq" is the one task of the one-task runs, "conc" the tasks
\* of the concurrent runs (the first channel and the first invalid one, one
\* mask), "setup" and "toggle" the two phases of the toggle scenario, "e2e"
\* the one task of the runs of a controller over one of the two drivers,
\* "ino" the tasks of the RelayControllerIntegration sketch.
InChannels(in) ==
    IF in = "seq" THEN Channels
    ELSE IF in = "toggle" THEN {harness.channel}
    ELSE IF in = "ino" THEN {webReq.value}
    ELSE {0, channelCount}

InMasks(in) ==
    IF in = "seq" THEN Masks
    ELSE IF in = "e2e" THEN {{1, 3}, {0, 9}}
    ELSE {{0, 9}}

\* Mutant: the first invalid channel passes the check
invalidChannel_offByOne(channel) == channel > channelCount

\* if (channel >= channelCount)
invalidChannel(channel) == channel >= channelCount

BulkOps == {"setAllLatches", "setAllOn", "setAllOff"}

\* --------------------------------------------------- LatchController::begin
begin_call(t, in) ==
    /\ Idle(t)
    /\ StartCall(t, in)
    /\ \E mode \in LatchTriggerMode :
           arg' = [arg EXCEPT ![t] = [NoArg EXCEPT !.mode = mode]]
    /\ op' = [op EXCEPT ![t] = "begin"]
    /\ IF driver = "nullptr"
       THEN Finish(t, <<FALSE>>)
       ELSE Goto(t, "lock") /\ UNCHANGED ret
    /\ UNCHANGED <<shared, tmp, outputData, initOk, calls>>
    /\ UNCHANGED <<srVars, dlVars, rcVars, webVars>>

\* if (lock == nullptr)
begin_lock(t) ==
    /\ At(t, "begin", "lock")
    /\ Goto(t, IF lock = nullptr THEN "create" ELSE "mode")
    /\ UNCHANGED <<shared, op, arg, tmp, outputData, initOk, ret, calls, entry, harness>>
    /\ UNCHANGED <<srVars, dlVars, rcVars, webVars>>

\* lock = xSemaphoreCreateMutex(); the heap holds MaxMutexes mutexes
begin_create(t) ==
    /\ At(t, "begin", "create")
    /\ \/ /\ mutexes < MaxMutexes
          /\ mutexes' = mutexes + 1
          /\ lock' = mutexes + 1
          /\ Goto(t, "mode")
          /\ UNCHANGED ret
       \/ /\ lock' = nullptr
          /\ Finish(t, <<FALSE>>)
          /\ UNCHANGED mutexes
    /\ UNCHANGED <<driver, channelCount, currentState, triggerMode, initialized,
                   holder, fault, hwData, lastInit>>
    /\ UNCHANGED <<op, arg, tmp, outputData, initOk, calls, entry, harness>>
    /\ UNCHANGED <<srVars, dlVars, rcVars, webVars>>

\* triggerMode = mode;
begin_mode(t) ==
    /\ At(t, "begin", "mode")
    /\ triggerMode' = arg[t].mode
    /\ Goto(t, "init")
    /\ UNCHANGED <<driver, channelCount, currentState, initialized, lock, mutexes,
                   holder, fault, hwData, lastInit>>
    /\ UNCHANGED <<op, arg, tmp, outputData, initOk, ret, calls, entry, harness>>
    /\ UNCHANGED <<srVars, dlVars, rcVars, webVars>>

\* driver->init() is entered
begin_init(t) ==
    /\ At(t, "begin", "init")
    /\ calls' = [calls EXCEPT ![t] = Append(@, <<"init">>)]
    /\ Goto(t, "in_init")
    /\ UNCHANGED <<shared, op, arg, tmp, outputData, initOk, ret, entry, harness>>
    /\ UNCHANGED <<srVars, dlVars, rcVars, webVars>>

\* Mutant: begin() goes on when driver->init() has failed
begin_state_ignoresInit(t) ==
    /\ At(t, "begin", "in_init")
    /\ \E ok \in BOOLEAN :
        /\ initOk' = [initOk EXCEPT ![t] = ok]
        /\ lastInit' = (IF ok THEN "true" ELSE "false")
    /\ currentState' = {}
    /\ Goto(t, "out")
    /\ UNCHANGED <<driver, channelCount, triggerMode, initialized, lock, mutexes,
                   holder, fault, hwData>>
    /\ UNCHANGED <<op, arg, tmp, outputData, ret, calls, entry, harness>>
    /\ UNCHANGED <<srVars, dlVars, rcVars, webVars>>

\* Mutant: a begin() whose driver->init() fails clears initialized
begin_state_resetsInitialized(t) ==
    /\ At(t, "begin", "in_init")
    /\ \E ok \in BOOLEAN :
        /\ initOk' = [initOk EXCEPT ![t] = ok]
        /\ lastInit' = (IF ok THEN "true" ELSE "false")
        /\ IF ok
           THEN /\ currentState' = {}
                /\ Goto(t, "out")
                /\ UNCHANGED <<ret, initialized>>
           ELSE /\ Finish(t, <<FALSE>>)
                /\ initialized' = FALSE
                /\ UNCHANGED currentState
    /\ UNCHANGED <<driver, channelCount, triggerMode, lock, mutexes,
                   holder, fault, hwData>>
    /\ UNCHANGED <<op, arg, tmp, outputData, calls, entry, harness>>
    /\ UNCHANGED <<srVars, dlVars, rcVars, webVars>>

\* driver->init() returns; on success currentState = 0;
begin_state(t) ==
    /\ At(t, "begin", "in_init")
    /\ \E ok \in BOOLEAN :
        /\ initOk' = [initOk EXCEPT ![t] = ok]
        /\ lastInit' = (IF ok THEN "true" ELSE "false")
        /\ IF ok
           THEN /\ currentState' = {}
                /\ Goto(t, "out")
                /\ UNCHANGED ret
           ELSE /\ Finish(t, <<FALSE>>)
                /\ UNCHANGED currentState
    /\ UNCHANGED <<driver, channelCount, triggerMode, initialized, lock, mutexes,
                   holder, fault, hwData>>
    /\ UNCHANGED <<op, arg, tmp, outputData, calls, entry, harness>>
    /\ UNCHANGED <<srVars, dlVars, rcVars, webVars>>

\* Mutant: begin() of v2.0.0, which sends currentState as it is
begin_outputData_v2(mode, state) == state

\* the value begin() sends: v3.0.0 applies the trigger mode
begin_outputData(mode, state) == OutputData(mode, state)

begin_out(t) ==
    /\ At(t, "begin", "out")
    /\ outputData' = [outputData EXCEPT ![t] = begin_outputData(triggerMode, currentState)]
    /\ Goto(t, "hw")
    /\ UNCHANGED <<shared, op, arg, tmp, initOk, ret, calls, entry, harness>>
    /\ UNCHANGED <<srVars, dlVars, rcVars, webVars>>

begin_hw(t) ==
    /\ At(t, "begin", "hw")
    /\ enterUpdateHardware(t, "in_hw")
    /\ UNCHANGED <<driver, channelCount, currentState, triggerMode, initialized,
                   lock, mutexes, holder, lastInit>>
    /\ UNCHANGED <<op, arg, tmp, outputData, initOk, ret, entry, harness>>
    /\ UNCHANGED <<srVars, dlVars, rcVars, webVars>>

\* updateHardware returns; initialized = true; return true;
begin_flag(t) ==
    /\ At(t, "begin", "in_hw")
    /\ initialized' = TRUE
    /\ Finish(t, <<TRUE>>)
    /\ UNCHANGED <<driver, channelCount, currentState, triggerMode, lock, mutexes,
                   holder, fault, hwData, lastInit>>
    /\ UNCHANGED <<op, arg, tmp, outputData, initOk, calls, entry, harness>>
    /\ UNCHANGED <<srVars, dlVars, rcVars, webVars>>

begin(t, in) ==
    \/ begin_call(t, in) \/ begin_lock(t) \/ begin_create(t) \/ begin_mode(t)
    \/ begin_init(t) \/ begin_state(t) \/ begin_out(t) \/ begin_hw(t)
    \/ begin_flag(t)

\* ------------------------------------------- the steps the mutators share
\* takeLock();
lockedOp_take(t, o, next) ==
    /\ At(t, o, "take")
    /\ takeLock(t, next)
    /\ UNCHANGED <<driver, channelCount, currentState, triggerMode, initialized,
                   lock, mutexes, fault, hwData, lastInit>>
    /\ UNCHANGED <<op, arg, tmp, outputData, initOk, ret, calls, entry, harness>>
    /\ UNCHANGED <<srVars, dlVars, rcVars, webVars>>

lockedOp_out(t, o) ==
    /\ At(t, o, "out")
    /\ computeOutput(t, "hw")
    /\ UNCHANGED <<shared, op, arg, tmp, initOk, ret, calls, entry, harness>>
    /\ UNCHANGED <<srVars, dlVars, rcVars, webVars>>

lockedOp_hw(t, o) ==
    /\ At(t, o, "hw")
    /\ enterUpdateHardware(t, "in_hw")
    /\ UNCHANGED <<driver, channelCount, currentState, triggerMode, initialized,
                   lock, mutexes, holder, lastInit>>
    /\ UNCHANGED <<op, arg, tmp, outputData, initOk, ret, entry, harness>>
    /\ UNCHANGED <<srVars, dlVars, rcVars, webVars>>

\* updateHardware returns; giveLock(); return v;
lockedOp_give(t, o, v) ==
    /\ At(t, o, "in_hw")
    /\ giveLock(t)
    /\ IF fault' THEN UNCHANGED <<pc, ret>> ELSE Finish(t, v)
    /\ UNCHANGED <<driver, channelCount, currentState, triggerMode, initialized,
                   lock, mutexes, hwData, lastInit>>
    /\ UNCHANGED <<op, arg, tmp, outputData, initOk, calls, entry, harness>>
    /\ UNCHANGED <<srVars, dlVars, rcVars, webVars>>


\* ------------------------------------------------ LatchController::setLatch
setLatch_call(t, in) ==
    /\ Idle(t)
    /\ StartCall(t, in)
    /\ \E channel \in InChannels(in), state \in BOOLEAN :
        /\ arg' = [arg EXCEPT ![t] = [NoArg EXCEPT !.channel = channel, !.state = state]]
        /\ IF invalidChannel(channel)
           THEN Finish(t, <<FALSE>>)
           ELSE Goto(t, "take") /\ UNCHANGED ret
    /\ op' = [op EXCEPT ![t] = "setLatch"]
    /\ UNCHANGED <<shared, tmp, outputData, initOk, calls>>
    /\ UNCHANGED <<srVars, dlVars, rcVars, webVars>>

\* the load of currentState in currentState |= ... / &= ... / ^= ...
lockedOp_load(t, o) ==
    /\ At(t, o, "load")
    /\ tmp' = [tmp EXCEPT ![t] = currentState]
    /\ Goto(t, "store")
    /\ UNCHANGED <<shared, op, arg, outputData, initOk, ret, calls, entry, harness>>
    /\ UNCHANGED <<srVars, dlVars, rcVars, webVars>>

\* Mutant: setLatch overwrites the whole word
setLatch_value_clearsOthers(old, channel, state) == IF state THEN {channel} ELSE {}

\* Mutant: the two branches of setLatch swapped
setLatch_value_swapped(old, channel, state) ==
    IF state THEN old \ {channel} ELSE old \cup {channel}

\* currentState |= (1UL << channel)  or  currentState &= ~(1UL << channel)
setLatch_value(old, channel, state) ==
    IF state THEN old \cup {channel} ELSE old \ {channel}

setLatch_store(t) ==
    /\ At(t, "setLatch", "store")
    /\ currentState' = setLatch_value(tmp[t], arg[t].channel, arg[t].state)
    /\ tmp' = [tmp EXCEPT ![t] = {}]
    /\ Goto(t, "out")
    /\ UNCHANGED <<driver, channelCount, triggerMode, initialized, lock, mutexes,
                   holder, fault, hwData, lastInit>>
    /\ UNCHANGED <<op, arg, outputData, initOk, ret, calls, entry, harness>>
    /\ UNCHANGED <<srVars, dlVars, rcVars, webVars>>

setLatch(t, in) ==
    \/ setLatch_call(t, in)
    \/ lockedOp_take(t, "setLatch", "load")
    \/ lockedOp_load(t, "setLatch")
    \/ setLatch_store(t)
    \/ lockedOp_out(t, "setLatch")
    \/ lockedOp_hw(t, "setLatch")
    \/ lockedOp_give(t, "setLatch", <<TRUE>>)

\* --------------------------------------------- LatchController::toggleLatch
toggleLatch_call(t, in) ==
    /\ Idle(t)
    /\ StartCall(t, in)
    /\ \E channel \in InChannels(in) :
        /\ arg' = [arg EXCEPT ![t] = [NoArg EXCEPT !.channel = channel]]
        /\ IF invalidChannel(channel)
           THEN Finish(t, <<FALSE>>)
           ELSE Goto(t, "take") /\ UNCHANGED ret
    /\ op' = [op EXCEPT ![t] = "toggleLatch"]
    /\ UNCHANGED <<shared, tmp, outputData, initOk, calls>>
    /\ UNCHANGED <<srVars, dlVars, rcVars, webVars>>

\* currentState ^= (1UL << channel)
\* Mutant: toggleLatch sets the bit
toggleLatch_value_sets(old, channel) == old \cup {channel}

toggleLatch_value(old, channel) == Xor32(old, {channel})

toggleLatch_store(t) ==
    /\ At(t, "toggleLatch", "store")
    /\ currentState' = toggleLatch_value(tmp[t], arg[t].channel)
    /\ tmp' = [tmp EXCEPT ![t] = {}]
    /\ Goto(t, "out")
    /\ UNCHANGED <<driver, channelCount, triggerMode, initialized, lock, mutexes,
                   holder, fault, hwData, lastInit>>
    /\ UNCHANGED <<op, arg, outputData, initOk, ret, calls, entry, harness>>
    /\ UNCHANGED <<srVars, dlVars, rcVars, webVars>>

toggleLatch(t, in) ==
    \/ toggleLatch_call(t, in)
    \/ lockedOp_take(t, "toggleLatch", "load")
    \/ lockedOp_load(t, "toggleLatch")
    \/ toggleLatch_store(t)
    \/ lockedOp_out(t, "toggleLatch")
    \/ lockedOp_hw(t, "toggleLatch")
    \/ lockedOp_give(t, "toggleLatch", <<TRUE>>)

\* ------------------- LatchController::setAllLatches, setAllOn and setAllOff
setAllLatches_call(t, in) ==
    /\ Idle(t)
    /\ StartCall(t, in)
    /\ \E mask \in InMasks(in) : arg' = [arg EXCEPT ![t] = [NoArg EXCEPT !.mask = mask]]
    /\ op' = [op EXCEPT ![t] = "setAllLatches"]
    /\ Goto(t, "take")
    /\ UNCHANGED <<shared, tmp, outputData, initOk, ret, calls>>
    /\ UNCHANGED <<srVars, dlVars, rcVars, webVars>>

\* uint32_t mask = (1UL << channelCount) - 1; setAllLatches(mask);
setAllOn_call(t, in) ==
    /\ Idle(t)
    /\ StartCall(t, in)
    /\ \E mask \in ChannelMasks(channelCount) :
           arg' = [arg EXCEPT ![t] = [NoArg EXCEPT !.mask = mask]]
    /\ op' = [op EXCEPT ![t] = "setAllOn"]
    /\ Goto(t, "take")
    /\ UNCHANGED <<shared, tmp, outputData, initOk, ret, calls>>
    /\ UNCHANGED <<srVars, dlVars, rcVars, webVars>>

\* setAllLatches(0);
setAllOff_call(t, in) ==
    /\ Idle(t)
    /\ StartCall(t, in)
    /\ arg' = [arg EXCEPT ![t] = [NoArg EXCEPT !.mask = {}]]
    /\ op' = [op EXCEPT ![t] = "setAllOff"]
    /\ Goto(t, "take")
    /\ UNCHANGED <<shared, tmp, outputData, initOk, ret, calls>>
    /\ UNCHANGED <<srVars, dlVars, rcVars, webVars>>

\* Mutant: the mask is stored without being limited to the channels
setAllLatches_value_noMask(mask, channelMask) == mask

\* currentState = mask & channelMask;
setAllLatches_value(mask, channelMask) == mask \cap channelMask

setAllLatches_store(t, o) ==
    /\ At(t, o, "store")
    /\ \E channelMask \in ChannelMasks(channelCount) :
           currentState' = setAllLatches_value(arg[t].mask, channelMask)
    /\ tmp' = [tmp EXCEPT ![t] = {}]
    /\ Goto(t, "out")
    /\ UNCHANGED <<driver, channelCount, triggerMode, initialized, lock, mutexes,
                   holder, fault, hwData, lastInit>>
    /\ UNCHANGED <<op, arg, outputData, initOk, ret, calls, entry, harness>>
    /\ UNCHANGED <<srVars, dlVars, rcVars, webVars>>

setAllLatches(t, in) ==
    \/ setAllLatches_call(t, in)
    \/ \E o \in BulkOps :
        \/ lockedOp_take(t, o, "store")
        \/ setAllLatches_store(t, o)
        \/ lockedOp_out(t, o)
        \/ lockedOp_hw(t, o)
        \/ lockedOp_give(t, o, <<>>)

\* ------------------------------------------ LatchController::setTriggerMode
setTriggerMode_call(t, in) ==
    /\ Idle(t)
    /\ StartCall(t, in)
    /\ \E mode \in LatchTriggerMode :
           arg' = [arg EXCEPT ![t] = [NoArg EXCEPT !.mode = mode]]
    /\ op' = [op EXCEPT ![t] = "setTriggerMode"]
    /\ Goto(t, "check")
    /\ UNCHANGED <<shared, tmp, outputData, initOk, ret, calls>>
    /\ UNCHANGED <<srVars, dlVars, rcVars, webVars>>

\* if (triggerMode != mode)
setTriggerMode_check(t) ==
    /\ At(t, "setTriggerMode", "check")
    /\ IF triggerMode # arg[t].mode
       THEN Goto(t, "take") /\ UNCHANGED ret
       ELSE Finish(t, <<>>)
    /\ UNCHANGED <<shared, op, arg, tmp, outputData, initOk, calls, entry, harness>>
    /\ UNCHANGED <<srVars, dlVars, rcVars, webVars>>

\* Mutant: setTriggerMode stores the physical mask in currentState
setTriggerMode_store_physical(t) ==
    /\ At(t, "setTriggerMode", "store")
    /\ triggerMode' = arg[t].mode
    /\ currentState' = Not32(currentState)
    /\ Goto(t, "out")
    /\ UNCHANGED <<driver, channelCount, initialized, lock, mutexes,
                   holder, fault, hwData, lastInit>>
    /\ UNCHANGED <<op, arg, tmp, outputData, initOk, ret, calls, entry, harness>>
    /\ UNCHANGED <<srVars, dlVars, rcVars, webVars>>

\* triggerMode = mode;
setTriggerMode_store(t) ==
    /\ At(t, "setTriggerMode", "store")
    /\ triggerMode' = arg[t].mode
    /\ Goto(t, "out")
    /\ UNCHANGED <<driver, channelCount, currentState, initialized, lock, mutexes,
                   holder, fault, hwData, lastInit>>
    /\ UNCHANGED <<op, arg, tmp, outputData, initOk, ret, calls, entry, harness>>
    /\ UNCHANGED <<srVars, dlVars, rcVars, webVars>>

setTriggerMode(t, in) ==
    \/ setTriggerMode_call(t, in)
    \/ setTriggerMode_check(t)
    \/ lockedOp_take(t, "setTriggerMode", "store")
    \/ setTriggerMode_store(t)
    \/ lockedOp_out(t, "setTriggerMode")
    \/ lockedOp_hw(t, "setTriggerMode")
    \/ lockedOp_give(t, "setTriggerMode", <<>>)

\* ------------------------------------------------------------- the queries
\* LatchController::getLatchState
GetLatchState(channel) ==
    IF invalidChannel(channel) THEN FALSE ELSE channel \in currentState

\* LatchController::getAllStates
GetAllStates == currentState

\* LatchController::isInitialized
IsInitialized == initialized

getLatchState(t, in) ==
    /\ Idle(t)
    /\ StartCall(t, in)
    /\ \E channel \in InChannels(in) :
        /\ arg' = [arg EXCEPT ![t] = [NoArg EXCEPT !.channel = channel]]
        /\ Finish(t, <<GetLatchState(channel)>>)
    /\ op' = [op EXCEPT ![t] = "getLatchState"]
    /\ UNCHANGED <<shared, tmp, outputData, initOk, calls>>
    /\ UNCHANGED <<srVars, dlVars, rcVars, webVars>>

getAllStates(t, in) ==
    /\ Idle(t)
    /\ StartCall(t, in)
    /\ Finish(t, <<GetAllStates>>)
    /\ op' = [op EXCEPT ![t] = "getAllStates"]
    /\ UNCHANGED <<shared, arg, tmp, outputData, initOk, calls>>
    /\ UNCHANGED <<srVars, dlVars, rcVars, webVars>>

\* the call returns to its caller
Return(t) ==
    /\ ~fault /\ pc[t] = "ret"
    /\ pc' = [pc EXCEPT ![t] = "idle"]
    /\ op' = [op EXCEPT ![t] = "none"]
    /\ arg' = [arg EXCEPT ![t] = NoArg]
    /\ tmp' = [tmp EXCEPT ![t] = {}]
    /\ outputData' = [outputData EXCEPT ![t] = {}]
    /\ initOk' = [initOk EXCEPT ![t] = FALSE]
    /\ ret' = [ret EXCEPT ![t] = <<>>]
    /\ calls' = [calls EXCEPT ![t] = <<>>]
    /\ entry' = [entry EXCEPT ![t] = NoEntry]
    /\ UNCHANGED <<shared, harness>>
    /\ UNCHANGED <<srVars, dlVars, rcVars, webVars>>

\* ------------------------------------------------------- specifications
Step(t, in) ==
    \/ begin(t, in)
    \/ setLatch(t, in)
    \/ toggleLatch(t, in)
    \/ setAllLatches(t, in)
    \/ setAllOn_call(t, in)
    \/ setAllOff_call(t, in)
    \/ setTriggerMode(t, in)
    \/ getLatchState(t, in)
    \/ getAllStates(t, in)
    \/ Return(t)

\* One task calling the controller: the calls run one after the other
Next == Step(MainTask, "seq")

Spec == Init /\ [][Next]_vars

\* NumTasks tasks calling one controller concurrently
InitConc ==
    /\ \E drv \in DriverArgs, channels \in ConcChannelArgs : Constructor(drv, channels)
    /\ InitRest
    /\ harness = [NoHarness EXCEPT !.phase = "calls", !.budget = MaxCalls]
    /\ SrIdle
    /\ DlIdle
    /\ RcIdle
    /\ WebIdle

StepConc(t, in) ==
    \/ begin(t, in)
    \/ setLatch(t, in)
    \/ toggleLatch(t, in)
    \/ setAllLatches(t, in)
    \/ setTriggerMode(t, in)
    \/ Return(t)

NextConc == \E t \in Tasks : StepConc(t, "conc")

SpecConc == InitConc /\ [][NextConc]_vars


\* N tasks toggling one channel M times each, after a begin() that succeeded.
\* The main task sets the controller up (begin, setAllLatches); Spawn then
\* starts n tasks that call toggleLatch(channel) m times each.
InitToggle ==
    /\ Constructor("drv", ToggleChannelArg)
    /\ InitRest
    /\ harness = [NoHarness EXCEPT !.phase = "setup"]
    /\ SrIdle
    /\ DlIdle
    /\ RcIdle
    /\ WebIdle

Spawn ==
    /\ harness.phase = "setup"
    /\ ~fault
    /\ initialized
    /\ \A t \in AllTasks : pc[t] = "idle"
    /\ \E n \in 1..NumTasks, m \in 1..MaxToggles, channel \in 0..(channelCount - 1) :
           harness' = [harness EXCEPT !.phase = "run", !.channel = channel,
                                      !.initial = GetLatchState(channel),
                                      !.n = n, !.m = m,
                                      !.remaining = [t \in AllTasks |->
                                          IF t \in 1..n THEN m ELSE 0]]
    /\ UNCHANGED <<shared, locals>>
    /\ UNCHANGED <<srVars, dlVars, rcVars, webVars>>

NextToggle ==
    \/ begin(MainTask, "setup")
    \/ setAllLatches(MainTask, "setup")
    \/ Spawn
    \/ \E t \in ToggleTasks : toggleLatch(t, "toggle") \/ Return(t)

SpecToggle == InitToggle /\ [][NextToggle]_vars

\* ------------------------------------------------------ ShiftRegisterDriver
\* The channel counts of the driver runs: none, two, one full register and
\* one more than init() shifts
ShiftChannelArgs == {0, 2, 8, 9}

\* The data words passed to updateHardware in the driver runs
ShiftData == {{}, {0}, {1, 3}, {0, 2, 8}, Bits}

\* What the registers can hold at power-up: the n stages all LOW, all HIGH,
\* or alternating
PowerUp(n) == {{}, {i \in Bits : i < n}, {i \in Bits : i < n /\ i % 2 = 1}}

\* The three ways the driver is constructed: (data, clock, latch, oe),
\* (data, clock, latch) and (data, clock)
SrConstructor ==
    \/ srLatch = TRUE /\ srOe = TRUE
    \/ srLatch = TRUE /\ srOe = FALSE
    \/ srLatch = FALSE /\ srOe = FALSE

\* (int8_t) x
Int8(x) == IF x % 256 >= 128 THEN (x % 256) - 256 ELSE x % 256

\* A rising clock edge moves every stage one place up and takes the data line
\* into stage 0
ShiftIn(reg, level) ==
    {i + 1 : i \in {j \in reg : j + 1 < channelCount}}
        \cup (IF level = HIGH /\ channelCount > 0 THEN {0} ELSE {})

\* digitalWrite(pin, level), and what the register does on a rising edge of
\* its clock or latch input
DigitalWrite(pin, level) ==
    /\ pinLevel' = [pinLevel EXCEPT ![pin] = level]
    /\ srWrites' = Append(srWrites, <<pin, level>>)
    /\ shiftReg' = IF pin = "clock" /\ level = HIGH /\ pinLevel["clock"] # HIGH
                   THEN ShiftIn(shiftReg, pinLevel["data"])
                   ELSE shiftReg
    /\ outReg' = IF pin = "latch" /\ level = HIGH /\ pinLevel["latch"] # HIGH
                 THEN shiftReg
                 ELSE outReg

NoWrite == UNCHANGED <<pinLevel, srWrites, shiftReg, outReg>>

\* The driver's call and its frame
SrAt(label) == srPc = label

SrGoto(label) == srPc' = label

SrFrame == UNCHANGED <<driver, channelCount, currentState, initialized, lock, mutexes,
                       holder, fault, hwData, lastInit, locals, harness, srLatch, srOe,
                       dlVars, rcVars, webVars>>

\* begin(mode) has stored the mode and calls driver->init()
sr_init_call ==
    /\ driver = "shift"
    /\ SrAt("idle")
    /\ \E mode \in LatchTriggerMode : triggerMode' = mode
    /\ srWrites' = <<>>
    /\ SrGoto("i_mode")
    /\ SrFrame
    /\ UNCHANGED <<pinOutput, pinLevel, shiftReg, outReg, srI, srData, srInited, srRendered>>

\* pinMode(dataPin, OUTPUT); pinMode(clockPin, OUTPUT);
sr_init_mode ==
    /\ SrAt("i_mode")
    /\ pinOutput' = pinOutput \cup {"data", "clock"}
    /\ SrGoto("i_latch")
    /\ NoWrite
    /\ SrFrame
    /\ UNCHANGED <<triggerMode, srI, srData, srInited, srRendered>>

\* if (latchPin != 0xFF) { pinMode(latchPin, OUTPUT); digitalWrite(latchPin, LOW); }
sr_init_latch ==
    /\ SrAt("i_latch")
    /\ IF srLatch
       THEN pinOutput' = pinOutput \cup {"latch"} /\ DigitalWrite("latch", LOW)
       ELSE UNCHANGED pinOutput /\ NoWrite
    /\ SrGoto("i_oe")
    /\ SrFrame
    /\ UNCHANGED <<triggerMode, srI, srData, srInited, srRendered>>

\* if (oePin != 0xFF) { pinMode(oePin, OUTPUT); digitalWrite(oePin, LOW); }
sr_init_oe ==
    /\ SrAt("i_oe")
    /\ IF srOe
       THEN pinOutput' = pinOutput \cup {"oe"} /\ DigitalWrite("oe", LOW)
       ELSE UNCHANGED pinOutput /\ NoWrite
    /\ SrGoto("i_data")
    /\ SrFrame
    /\ UNCHANGED <<triggerMode, srI, srData, srInited, srRendered>>

\* digitalWrite(dataPin, LOW);
sr_init_data ==
    /\ SrAt("i_data")
    /\ DigitalWrite("data", LOW)
    /\ SrGoto("i_clock")
    /\ SrFrame
    /\ UNCHANGED <<triggerMode, pinOutput, srI, srData, srInited, srRendered>>

\* where the loop for (int i = 0; i < 8; i++) goes with i
InitLoop(i) == IF i < InitShifts THEN "i_shiftData" ELSE "i_latchHigh"

\* digitalWrite(clockPin, LOW); then the loop starts with i = 0
sr_init_clock ==
    /\ SrAt("i_clock")
    /\ DigitalWrite("clock", LOW)
    /\ srI' = 0
    /\ SrGoto(InitLoop(0))
    /\ SrFrame
    /\ UNCHANGED <<triggerMode, pinOutput, srData, srInited, srRendered>>

\* digitalWrite(dataPin, HIGH);
sr_init_shiftData ==
    /\ SrAt("i_shiftData")
    /\ DigitalWrite("data", HIGH)
    /\ SrGoto("i_clockHigh")
    /\ SrFrame
    /\ UNCHANGED <<triggerMode, pinOutput, srI, srData, srInited, srRendered>>

\* digitalWrite(clockPin, HIGH);
sr_init_clockHigh ==
    /\ SrAt("i_clockHigh")
    /\ DigitalWrite("clock", HIGH)
    /\ SrGoto("i_clockLow")
    /\ SrFrame
    /\ UNCHANGED <<triggerMode, pinOutput, srI, srData, srInited, srRendered>>

\* digitalWrite(clockPin, LOW); i++
sr_init_clockLow ==
    /\ SrAt("i_clockLow")
    /\ DigitalWrite("clock", LOW)
    /\ srI' = srI + 1
    /\ SrGoto(InitLoop(srI + 1))
    /\ SrFrame
    /\ UNCHANGED <<triggerMode, pinOutput, srData, srInited, srRendered>>

\* if (latchPin != 0xFF) { digitalWrite(latchPin, HIGH); ...
sr_init_latchHigh ==
    /\ SrAt("i_latchHigh")
    /\ IF srLatch
       THEN DigitalWrite("latch", HIGH) /\ SrGoto("i_latchLow")
       ELSE NoWrite /\ SrGoto("i_return")
    /\ SrFrame
    /\ UNCHANGED <<triggerMode, pinOutput, srI, srData, srInited, srRendered>>

\* ... digitalWrite(latchPin, LOW); }
sr_init_latchLow ==
    /\ SrAt("i_latchLow")
    /\ DigitalWrite("latch", LOW)
    /\ SrGoto("i_return")
    /\ SrFrame
    /\ UNCHANGED <<triggerMode, pinOutput, srI, srData, srInited, srRendered>>

\* return true;
sr_init_return ==
    /\ SrAt("i_return")
    /\ srInited' = TRUE
    /\ SrGoto("idle")
    /\ NoWrite
    /\ SrFrame
    /\ UNCHANGED <<triggerMode, pinOutput, srI, srData, srRendered>>

\* a call of the controller reaches driver->updateHardware(data, channelCount)
sr_updateHardware_call ==
    /\ driver = "shift"
    /\ SrAt("idle")
    /\ srInited
    /\ \E data \in ShiftData : srData' = data
    /\ srWrites' = <<>>
    /\ srRendered' = TRUE
    /\ SrGoto("u_latchLow")
    /\ SrFrame
    /\ UNCHANGED <<triggerMode, pinOutput, pinLevel, shiftReg, outReg, srI, srInited>>

\* where the loop for (int8_t i = bits - 1; i >= 0; i--) goes with i
ShiftLoop(i) == IF i >= 0 THEN "s_clockLow" ELSE "s_end"

\* Mutant: updateHardware does not lower the latch line before shifting
sr_updateHardware_latchLow_kept ==
    /\ SrAt("u_latchLow")
    /\ NoWrite
    /\ srI' = Int8(channelCount - 1)
    /\ SrGoto(ShiftLoop(Int8(channelCount - 1)))
    /\ SrFrame
    /\ UNCHANGED <<triggerMode, pinOutput, srData, srInited, srRendered>>

\* Mutant: updateHardware drives the output-enable line LOW again where there
\* is one
sr_updateHardware_latchLow_enables ==
    /\ SrAt("u_latchLow")
    /\ IF srOe THEN DigitalWrite("oe", LOW)
       ELSE IF srLatch THEN DigitalWrite("latch", LOW) ELSE NoWrite
    /\ srI' = Int8(channelCount - 1)
    /\ SrGoto(ShiftLoop(Int8(channelCount - 1)))
    /\ SrFrame
    /\ UNCHANGED <<triggerMode, pinOutput, srData, srInited, srRendered>>

\* if (latchPin != 0xFF) digitalWrite(latchPin, LOW); shiftOut(data, channelCount)
\* starts with i = bits - 1
sr_updateHardware_latchLow ==
    /\ SrAt("u_latchLow")
    /\ IF srLatch THEN DigitalWrite("latch", LOW) ELSE NoWrite
    /\ srI' = Int8(channelCount - 1)
    /\ SrGoto(ShiftLoop(Int8(channelCount - 1)))
    /\ SrFrame
    /\ UNCHANGED <<triggerMode, pinOutput, srData, srInited, srRendered>>

\* digitalWrite(clockPin, LOW);
shiftOut_clockLow ==
    /\ SrAt("s_clockLow")
    /\ DigitalWrite("clock", LOW)
    /\ SrGoto("s_data")
    /\ SrFrame
    /\ UNCHANGED <<triggerMode, pinOutput, srI, srData, srInited, srRendered>>

\* Mutant: the bits are sent LSB first
shiftOut_level_lsbFirst(data, i) ==
    {IF (channelCount - 1 - i) \in data THEN HIGH ELSE LOW}

\* (data & (1UL << i)) ? HIGH : LOW
shiftOut_level(data, i) == {IF data \cap s # {} THEN HIGH ELSE LOW : s \in Shl1(i)}

\* digitalWrite(dataPin, (data & (1UL << i)) ? HIGH : LOW);
shiftOut_data ==
    /\ SrAt("s_data")
    /\ \E level \in shiftOut_level(srData, srI) : DigitalWrite("data", level)
    /\ SrGoto("s_clockHigh")
    /\ SrFrame
    /\ UNCHANGED <<triggerMode, pinOutput, srI, srData, srInited, srRendered>>

\* digitalWrite(clockPin, HIGH); i--
shiftOut_clockHigh ==
    /\ SrAt("s_clockHigh")
    /\ DigitalWrite("clock", HIGH)
    /\ srI' = Int8(srI - 1)
    /\ SrGoto(ShiftLoop(Int8(srI - 1)))
    /\ SrFrame
    /\ UNCHANGED <<triggerMode, pinOutput, srData, srInited, srRendered>>

\* digitalWrite(clockPin, LOW); after the loop
shiftOut_end ==
    /\ SrAt("s_end")
    /\ DigitalWrite("clock", LOW)
    /\ SrGoto("u_latchHigh")
    /\ SrFrame
    /\ UNCHANGED <<triggerMode, pinOutput, srI, srData, srInited, srRendered>>

\* if (latchPin != 0xFF) digitalWrite(latchPin, HIGH); and the call returns
sr_updateHardware_latchHigh ==
    /\ SrAt("u_latchHigh")
    /\ IF srLatch THEN DigitalWrite("latch", HIGH) ELSE NoWrite
    /\ SrGoto("idle")
    /\ SrFrame
    /\ UNCHANGED <<triggerMode, pinOutput, srI, srData, srInited, srRendered>>

\* The register outputs Q0..Qn-1 that are HIGH: the storage register of a
\* 74HC595, the shift register itself of a 74HC164
Outputs == IF srLatch THEN outReg ELSE shiftReg

\* A controller over a ShiftRegisterDriver, seen from the driver: init() is
\* called by begin(mode), updateHardware(data, channelCount) by the calls
\* that render
InitShift ==
    /\ \E channels \in ShiftChannelArgs : Constructor("shift", channels)
    /\ InitRest
    /\ harness = NoHarness
    /\ SrConstructor
    /\ shiftReg \in PowerUp(channelCount)
    /\ outReg \in PowerUp(channelCount)
    /\ SrQuiet
    /\ DlIdle
    /\ RcIdle
    /\ WebIdle

NextShift ==
    \/ sr_init_call
    \/ sr_init_mode
    \/ sr_init_latch
    \/ sr_init_oe
    \/ sr_init_data
    \/ sr_init_clock
    \/ sr_init_shiftData
    \/ sr_init_clockHigh
    \/ sr_init_clockLow
    \/ sr_init_latchHigh
    \/ sr_init_latchLow
    \/ sr_init_return
    \/ sr_updateHardware_call
    \/ sr_updateHardware_latchLow
    \/ shiftOut_clockLow
    \/ shiftOut_data
    \/ shiftOut_clockHigh
    \/ shiftOut_end
    \/ sr_updateHardware_latchHigh

SpecShift == InitShift /\ [][NextShift]_vars

\* -------------------------------------------------------- DirectLatchDriver
\* The channel counts of the controller and the numbers of data lines of the
\* driver in the DirectLatchDriver runs
DirectChannelArgs == {1, 2, MaxLines}
DirectLineArgs == {2, MaxLines}

\* The data words passed to updateHardware
DirectData == ShiftData

\* digitalWrite(enablePin, level): a latch whose enable is HIGH is
\* transparent, its outputs follow the data lines
DlWriteEnable(level) ==
    /\ dlEnable' = level
    /\ dlWrites' = Append(dlWrites, <<"enable", 0, level>>)
    /\ dlLatched' = IF level = HIGH
                    THEN {i \in Lines : i < numChannels /\ dlLevel[i] = HIGH}
                    ELSE dlLatched
    /\ UNCHANGED dlLevel

\* digitalWrite(dataPins[i], level)
DlWriteLine(i, level) ==
    /\ dlLevel' = [dlLevel EXCEPT ![i] = level]
    /\ dlWrites' = Append(dlWrites, <<"line", i, level>>)
    /\ dlLatched' = IF dlEnable = HIGH
                    THEN (dlLatched \ {i}) \cup (IF level = HIGH THEN {i} ELSE {})
                    ELSE dlLatched
    /\ UNCHANGED dlEnable

DlAt(label) == dlPc = label

DlGoto(label) == dlPc' = label

DlFrame == UNCHANGED <<driver, channelCount, currentState, initialized, lock, mutexes,
                       holder, fault, hwData, lastInit, locals, harness, srVars,
                       numChannels, rcVars, webVars>>

\* begin(mode) has stored the mode and calls driver->init()
dl_init_call ==
    /\ driver = "direct"
    /\ DlAt("idle")
    /\ \E mode \in LatchTriggerMode : triggerMode' = mode
    /\ dlWrites' = <<>>
    /\ DlGoto("i_enable")
    /\ DlFrame
    /\ UNCHANGED <<dlOutput, dlEnable, dlLevel, dlLatched, dlI, dlData, dlInited, dlRendered>>

\* where the loop for (uint8_t i = 0; i < numChannels; i++) goes with i
DlInitLoop(i) == IF i < numChannels THEN "i_line" ELSE "i_return"

\* Mutant: init() opens the latches
dl_init_enable_transparent ==
    /\ DlAt("i_enable")
    /\ dlOutput' = [dlOutput EXCEPT !.enable = TRUE]
    /\ DlWriteEnable(HIGH)
    /\ dlI' = 0
    /\ DlGoto(DlInitLoop(0))
    /\ DlFrame
    /\ UNCHANGED <<triggerMode, dlData, dlInited, dlRendered>>

\* pinMode(enablePin, OUTPUT); digitalWrite(enablePin, LOW); the loop starts
dl_init_enable ==
    /\ DlAt("i_enable")
    /\ dlOutput' = [dlOutput EXCEPT !.enable = TRUE]
    /\ DlWriteEnable(LOW)
    /\ dlI' = 0
    /\ DlGoto(DlInitLoop(0))
    /\ DlFrame
    /\ UNCHANGED <<triggerMode, dlData, dlInited, dlRendered>>

\* pinMode(dataPins[i], OUTPUT); digitalWrite(dataPins[i], LOW); i++
dl_init_line ==
    /\ DlAt("i_line")
    /\ dlOutput' = [dlOutput EXCEPT !.lines = @ \cup {dlI}]
    /\ DlWriteLine(dlI, LOW)
    /\ dlI' = (dlI + 1) % (UINT8_MAX + 1)
    /\ DlGoto(DlInitLoop((dlI + 1) % (UINT8_MAX + 1)))
    /\ DlFrame
    /\ UNCHANGED <<triggerMode, dlData, dlInited, dlRendered>>

\* return true;
dl_init_return ==
    /\ DlAt("i_return")
    /\ dlInited' = TRUE
    /\ DlGoto("idle")
    /\ DlFrame
    /\ UNCHANGED <<triggerMode, dlOutput, dlEnable, dlLevel, dlLatched, dlI, dlData,
                   dlWrites, dlRendered>>

\* a call of the controller reaches driver->updateHardware(data, channelCount)
dl_updateHardware_call ==
    /\ driver = "direct"
    /\ DlAt("idle")
    /\ dlInited
    /\ \E data \in DirectData : dlData' = data
    /\ dlWrites' = <<>>
    /\ dlRendered' = TRUE
    /\ DlGoto("u_enableHigh")
    /\ DlFrame
    /\ UNCHANGED <<triggerMode, dlOutput, dlEnable, dlLevel, dlLatched, dlI, dlInited>>

\* where the loop for (uint8_t i = 0; i < channelCount && i < numChannels; i++)
\* goes with i
DlUpdateLoop(i) == IF i < channelCount /\ i < numChannels THEN "u_line" ELSE "u_enableLow"

\* digitalWrite(enablePin, HIGH); the loop starts
dl_updateHardware_enableHigh ==
    /\ DlAt("u_enableHigh")
    /\ DlWriteEnable(HIGH)
    /\ dlI' = 0
    /\ DlGoto(DlUpdateLoop(0))
    /\ DlFrame
    /\ UNCHANGED <<triggerMode, dlOutput, dlData, dlInited, dlRendered>>

\* (data & (1UL << i)) ? HIGH : LOW
dl_level(data, i) == {IF data \cap s # {} THEN HIGH ELSE LOW : s \in Shl1(i)}

\* digitalWrite(dataPins[i], (data & (1UL << i)) ? HIGH : LOW); i++
dl_updateHardware_line ==
    /\ DlAt("u_line")
    /\ \E level \in dl_level(dlData, dlI) : DlWriteLine(dlI, level)
    /\ dlI' = (dlI + 1) % (UINT8_MAX + 1)
    /\ DlGoto(DlUpdateLoop((dlI + 1) % (UINT8_MAX + 1)))
    /\ DlFrame
    /\ UNCHANGED <<triggerMode, dlOutput, dlData, dlInited, dlRendered>>

\* digitalWrite(enablePin, LOW); and the call returns
dl_updateHardware_enableLow ==
    /\ DlAt("u_enableLow")
    /\ DlWriteEnable(LOW)
    /\ DlGoto("idle")
    /\ DlFrame
    /\ UNCHANGED <<triggerMode, dlOutput, dlI, dlData, dlInited, dlRendered>>

\* A controller over a DirectLatchDriver, seen from the driver
InitDirect ==
    /\ \E channels \in DirectChannelArgs : Constructor("direct", channels)
    /\ InitRest
    /\ harness = NoHarness
    /\ SrIdle
    /\ numChannels \in DirectLineArgs
    /\ dlLatched \in PowerUp(numChannels)
    /\ DlQuiet
    /\ RcIdle
    /\ WebIdle

NextDirect ==
    \/ dl_init_call
    \/ dl_init_enable
    \/ dl_init_line
    \/ dl_init_return
    \/ dl_updateHardware_call
    \/ dl_updateHardware_enableHigh
    \/ dl_updateHardware_line
    \/ dl_updateHardware_enableLow

\* A controller over either driver
InitDrivers == InitShift \/ InitDirect

NextDrivers == NextShift \/ NextDirect

SpecDrivers == InitDrivers /\ [][NextDrivers]_vars

\* ------------------------------------- a controller over one of the drivers
\* The channel counts of these runs: the 8 channels of the serial scenario,
\* the 4 lines of the parallel scenario, and the most a controller takes
E2EShiftArgs == {8, MaxChannels}
E2EDirectArgs == {MaxLines, MaxChannels}

\* The last driver call of task t's current call
LastCall(t) == calls[t][Len(calls[t])]

\* Task t's call has entered the driver and the driver has not started yet
DriverEntered(t, fn) ==
    /\ ~fault
    /\ calls[t] # <<>> /\ LastCall(t)[1] = fn
    /\ srPc = "idle" /\ dlPc = "idle"

\* The driver call of task t has run to its end
DriverReturned(t) ==
    /\ calls[t] # <<>> /\ LastCall(t)[1] = "running"
    /\ srPc = "idle" /\ dlPc = "idle"

E2EFrame == UNCHANGED <<shared, pc, op, arg, tmp, outputData, initOk, ret, entry, harness,
                        srLatch, srOe, numChannels, rcVars, webVars>>

\* driver->init() of begin() starts to run in the driver
e2e_init(t) ==
    /\ pc[t] = "in_init"
    /\ DriverEntered(t, "init")
    /\ calls' = [calls EXCEPT ![t] = Append(@, <<"running">>)]
    /\ IF driver = "shift"
       THEN /\ srWrites' = <<>>
            /\ SrGoto("i_mode")
            /\ UNCHANGED <<dlWrites, dlPc>>
       ELSE /\ dlWrites' = <<>>
            /\ DlGoto("i_enable")
            /\ UNCHANGED <<srWrites, srPc>>
    /\ E2EFrame
    /\ UNCHANGED <<pinOutput, pinLevel, shiftReg, outReg, srI, srData, srInited, srRendered>>
    /\ UNCHANGED <<dlOutput, dlEnable, dlLevel, dlLatched, dlI, dlData, dlInited, dlRendered>>

\* driver->updateHardware(outputData, channelCount) starts to run in the driver
e2e_updateHardware(t) ==
    /\ pc[t] = "in_hw"
    /\ DriverEntered(t, "updateHardware")
    /\ calls' = [calls EXCEPT ![t] = Append(@, <<"running">>)]
    /\ IF driver = "shift"
       THEN /\ srData' = hwData[1]
            /\ srWrites' = <<>>
            /\ srRendered' = TRUE
            /\ SrGoto("u_latchLow")
            /\ UNCHANGED <<dlData, dlWrites, dlRendered, dlPc>>
       ELSE /\ dlData' = hwData[1]
            /\ dlWrites' = <<>>
            /\ dlRendered' = TRUE
            /\ DlGoto("u_enableHigh")
            /\ UNCHANGED <<srData, srWrites, srRendered, srPc>>
    /\ E2EFrame
    /\ UNCHANGED <<pinOutput, pinLevel, shiftReg, outReg, srI, srInited>>
    /\ UNCHANGED <<dlOutput, dlEnable, dlLevel, dlLatched, dlI, dlInited>>

\* init() of either driver has returned true to begin()
e2e_begin_state(t) == DriverReturned(t) /\ begin_state(t) /\ initOk'[t]

\* updateHardware() has returned to begin()
e2e_begin_flag(t) == DriverReturned(t) /\ begin_flag(t)

\* updateHardware() has returned to one of the mutating calls
e2e_give(t) ==
    /\ DriverReturned(t)
    /\ \/ \E o \in {"setLatch", "toggleLatch"} : lockedOp_give(t, o, <<TRUE>>)
       \/ \E o \in BulkOps \cup {"setTriggerMode"} : lockedOp_give(t, o, <<>>)

InitE2E ==
    /\ \/ /\ \E channels \in E2EShiftArgs : Constructor("shift", channels)
          /\ SrConstructor
          /\ shiftReg \in PowerUp(channelCount)
          /\ outReg \in PowerUp(channelCount)
          /\ SrQuiet
          /\ DlIdle
       \/ /\ \E channels \in E2EDirectArgs : Constructor("direct", channels)
          /\ numChannels \in E2EDirectArgs
          /\ dlLatched \in PowerUp(numChannels)
          /\ DlQuiet
          /\ SrIdle
    /\ InitRest
    /\ harness = NoHarness
    /\ RcIdle
    /\ WebIdle

StepE2E(t, in) ==
    \/ begin_call(t, in) \/ begin_lock(t) \/ begin_create(t) \/ begin_mode(t)
    \/ begin_init(t) \/ e2e_init(t) \/ e2e_begin_state(t)
    \/ begin_out(t) \/ begin_hw(t) \/ e2e_updateHardware(t) \/ e2e_begin_flag(t)
    \/ setLatch_call(t, in) \/ toggleLatch_call(t, in) \/ setAllLatches_call(t, in)
    \/ setAllOn_call(t, in) \/ setAllOff_call(t, in) \/ setTriggerMode_call(t, in)
    \/ setTriggerMode_check(t)
    \/ \E o \in {"setLatch", "toggleLatch"} : lockedOp_take(t, o, "load") \/ lockedOp_load(t, o)
    \/ \E o \in BulkOps \cup {"setTriggerMode"} : lockedOp_take(t, o, "store")
    \/ setLatch_store(t) \/ toggleLatch_store(t) \/ setTriggerMode_store(t)
    \/ \E o \in BulkOps : setAllLatches_store(t, o)
    \/ \E o \in BulkOps \cup {"setLatch", "toggleLatch", "setTriggerMode"} :
        lockedOp_out(t, o) \/ lockedOp_hw(t, o)
    \/ e2e_give(t)
    \/ Return(t)

DriverSteps ==
    \/ sr_init_mode \/ sr_init_latch \/ sr_init_oe \/ sr_init_data \/ sr_init_clock
    \/ sr_init_shiftData \/ sr_init_clockHigh \/ sr_init_clockLow
    \/ sr_init_latchHigh \/ sr_init_latchLow \/ sr_init_return
    \/ sr_updateHardware_latchLow \/ shiftOut_clockLow \/ shiftOut_data
    \/ shiftOut_clockHigh \/ shiftOut_end \/ sr_updateHardware_latchHigh
    \/ dl_init_enable \/ dl_init_line \/ dl_init_return
    \/ dl_updateHardware_enableHigh \/ dl_updateHardware_line
    \/ dl_updateHardware_enableLow

NextE2E == StepE2E(MainTask, "e2e") \/ DriverSteps

SpecE2E == InitE2E /\ [][NextE2E]_vars

\* ---------------------------------------------------- ESP32_RelayController
\* uint8_t outputData = (triggerMode == LOW_TRIGGER) ? ~currentState : currentState
RcOutput(mode, state) == IF mode = LOW_TRIGGER THEN RelayBits \ state ELSE state

\* currentState |= (1 << channel), &= ~(1 << channel), ^= (1 << channel)
RcApply(o, state, channel) ==
    IF o = "setRelayOn" THEN state \cup {channel}
    ELSE IF o = "setRelayOff" THEN state \ {channel}
    ELSE (state \ {channel}) \cup ({channel} \ state)

RcGoto(t, label) == rcPc' = [rcPc EXCEPT ![t] = label]

\* The call of task t returns
RcFinish(t) ==
    /\ rcPc' = [rcPc EXCEPT ![t] = "idle"]
    /\ rcDone' = [rcDone EXCEPT ![t] = @ + 1]
    /\ rcTmp' = [rcTmp EXCEPT ![t] = {}]

RcFrame == UNCHANGED <<shared, locals, harness, srVars, dlVars, webVars>>

\* begin(data, clock, latch, oe, mode), called by the one task there is before
\* the others start: its updateHardware() returns at once, initialized being false
rc_begin ==
    /\ rcHarness.scenario = "setup"
    /\ ~rcInitialized
    /\ \E mode \in {HIGH_TRIGGER, LOW_TRIGGER} : rcMode' = mode
    /\ rcLock' = IF rcLock.created THEN rcLock ELSE [created |-> TRUE, holder |-> NoTask]
    /\ rcState' = {}
    /\ rcInitialized' = TRUE
    /\ UNCHANGED <<rcOut, rcPc, rcOp, rcChannel, rcTmp, rcDone, rcLast, rcHarness>>
    /\ RcFrame

\* setAllByMask(mask), called by the one task there is before the others start
rc_setAllByMask ==
    /\ rcHarness.scenario = "setup"
    /\ rcInitialized
    /\ \E mask \in {{0}, RelayBits} :
        /\ rcState' = mask
        /\ rcOut' = RcOutput(rcMode, mask)
    /\ UNCHANGED <<rcMode, rcInitialized, rcLock, rcPc, rcOp, rcChannel, rcTmp, rcDone,
                   rcLast, rcHarness>>
    /\ RcFrame

\* The tasks start: in scenario "toggle" each of n tasks calls toggleRelay(i) m
\* times, in scenario "set" task t calls setRelayOn and setRelayOff on a channel
\* of its own m times
rc_Spawn ==
    /\ rcHarness.scenario = "setup"
    /\ rcInitialized
    /\ \E scenario \in {"toggle", "set"}, n \in 1..MaxRelayTasks, m \in 1..MaxToggles :
        \E channel \in IF scenario = "toggle" THEN {0, MAX_RELAY_CHANNELS - 1} ELSE {0} :
            rcHarness' = [scenario |-> scenario, tasks |-> n, calls |-> m,
                          channel |-> channel, initial |-> channel \in rcState]
    /\ UNCHANGED <<rcState, rcMode, rcInitialized, rcLock, rcOut, rcPc, rcOp, rcChannel,
                   rcTmp, rcDone, rcLast>>
    /\ RcFrame

\* The channels task t passes to o
RcChannels(t, o) ==
    IF o = "toggleRelay" THEN {rcHarness.channel} ELSE {t - 1, MAX_RELAY_CHANNELS}

\* setRelayOn(channel), setRelayOff(channel), toggleRelay(channel): the
\* channel check
rc_call(t, o) ==
    /\ rcHarness.scenario = (IF o = "toggleRelay" THEN "toggle" ELSE "set")
    /\ t <= rcHarness.tasks
    /\ rcPc[t] = "idle"
    /\ rcDone[t] < rcHarness.calls
    /\ rcOp' = [rcOp EXCEPT ![t] = o]
    /\ \E channel \in RcChannels(t, o) :
        /\ rcChannel' = [rcChannel EXCEPT ![t] = channel]
        /\ IF channel >= MAX_RELAY_CHANNELS
           THEN RcFinish(t)
           ELSE RcGoto(t, "load") /\ UNCHANGED <<rcDone, rcTmp>>
    /\ UNCHANGED <<rcState, rcMode, rcInitialized, rcLock, rcOut, rcLast, rcHarness>>
    /\ RcFrame

\* currentState op= (1 << channel): the read
rc_load(t) ==
    /\ rcPc[t] = "load"
    /\ rcTmp' = [rcTmp EXCEPT ![t] = rcState]
    /\ RcGoto(t, "store")
    /\ UNCHANGED <<rcState, rcMode, rcInitialized, rcLock, rcOut, rcOp, rcChannel, rcDone,
                   rcLast, rcHarness>>
    /\ RcFrame

\* currentState op= (1 << channel): the write
rc_store(t) ==
    /\ rcPc[t] = "store"
    /\ rcState' = RcApply(rcOp[t], rcTmp[t], rcChannel[t])
    /\ RcGoto(t, "update")
    /\ UNCHANGED <<rcMode, rcInitialized, rcLock, rcOut, rcOp, rcChannel, rcTmp, rcDone,
                   rcLast, rcHarness>>
    /\ RcFrame

\* The call of task t returns true
RcReturn(t) ==
    /\ RcFinish(t)
    /\ rcLast' = [rcLast EXCEPT ![t] = IF rcOp[t] = "toggleRelay" THEN @ ELSE rcOp[t]]

\* updateHardware(): if (!initialized) return; takeLock()
rc_updateHardware_take(t) ==
    /\ rcPc[t] = "update"
    /\ IF ~rcInitialized
       THEN RcReturn(t) /\ UNCHANGED rcLock
       ELSE /\ rcLock.created => rcLock.holder = NoTask
            /\ rcLock' = IF rcLock.created THEN [rcLock EXCEPT !.holder = t] ELSE rcLock
            /\ RcGoto(t, "shift")
            /\ UNCHANGED <<rcDone, rcLast, rcTmp>>
    /\ UNCHANGED <<rcState, rcMode, rcInitialized, rcOut, rcOp, rcChannel, rcHarness>>
    /\ RcFrame

\* updateHardware(): outputData, latch LOW, shiftOut(outputData), latch HIGH
rc_updateHardware_shift(t) ==
    /\ rcPc[t] = "shift"
    /\ rcOut' = RcOutput(rcMode, rcState)
    /\ RcGoto(t, "give")
    /\ UNCHANGED <<rcState, rcMode, rcInitialized, rcLock, rcOp, rcChannel, rcTmp, rcDone,
                   rcLast, rcHarness>>
    /\ RcFrame

\* updateHardware(): giveLock(); the caller returns true
rc_updateHardware_give(t) ==
    /\ rcPc[t] = "give"
    /\ rcLock' = IF rcLock.created THEN [rcLock EXCEPT !.holder = NoTask] ELSE rcLock
    /\ RcReturn(t)
    /\ UNCHANGED <<rcState, rcMode, rcInitialized, rcOut, rcOp, rcChannel, rcHarness>>
    /\ RcFrame

\* getRelayState(channel)
GetRelayState(channel) == channel < MAX_RELAY_CHANNELS /\ channel \in rcState

InitRelay ==
    /\ Constructor("drv", ToggleChannelArg)
    /\ InitRest
    /\ harness = NoHarness
    /\ SrIdle
    /\ DlIdle
    /\ WebIdle
    /\ RcConstructor
    /\ rcHarness = [NoRelayHarness EXCEPT !.scenario = "setup"]

NextRelay ==
    \/ rc_begin
    \/ rc_setAllByMask
    \/ rc_Spawn
    \/ \E t \in RelayTasks :
        \/ rc_call(t, "toggleRelay")
        \/ rc_call(t, "setRelayOn")
        \/ rc_call(t, "setRelayOff")
        \/ rc_load(t)
        \/ rc_store(t)
        \/ rc_updateHardware_take(t)
        \/ rc_updateHardware_shift(t)
        \/ rc_updateHardware_give(t)

SpecRelay == InitRelay /\ [][NextRelay]_vars

\* ------------------------------------------------- ESP32_AsyncWebController
\* The maxChannels of the runs: the constructor's default
WebChannelArgs == {8}

\* The characters of a query parameter
DigitChars == <<"0", "1", "2", "3", "4", "5", "6", "7", "8", "9">>
IsDigit(c) == \E d \in 1..10 : DigitChars[d] = c
DigitVal(c) == (CHOOSE d \in 1..10 : DigitChars[d] = c) - 1

\* The digits of text from position i on, read as a decimal number after acc
RECURSIVE ParseDigits(_, _, _)
ParseDigits(text, i, acc) ==
    IF i > Len(text) \/ ~IsDigit(text[i])
    THEN acc
    ELSE ParseDigits(text, i + 1, acc * 10 + DigitVal(text[i]))

\* String::toInt(): an optional sign and the digits up to the first other
\* character; 0 when there is none
ToInt(text) ==
    IF text # <<>> /\ text[1] = "-"
    THEN 0 - ParseDigits(text, 2, 0)
    ELSE ParseDigits(text, 1, 0)

\* The conversion of a long to uint8_t
ToUint8(v) == v % (UINT8_MAX + 1)

\* The values of the channel parameter in the requests of the runs
ChannelParams ==
    {<<"3">>, <<"8">>, <<"2", "5", "9">>, <<"2", "6", "4">>, <<"-", "1">>, <<"3", "a">>}

\* The values of "channel" in the JSON commands of the runs
JsonChannels == {3, 8, UINT8_MAX + 4}

\* uint8_t channel = doc["channel"]: the value when it fits, and for one that
\* does not either 0 or its low 8 bits, as the JSON library converts it
JsonToUint8(v) == IF v >= 0 /\ v <= UINT8_MAX THEN {v} ELSE {0, ToUint8(v)}

\* Mutant: maxChannels itself passes
isChannelValid_orEqual(channel) == channel <= webMax

\* isChannelValid(channel)
isChannelValid(channel) == channel < webMax

WebFrame == UNCHANGED <<shared, locals, harness, srVars, dlVars, rcVars, webMax,
                        inoMutex, inoPc>>

\* The messages and callback calls: <<kind, channel, state>>
AllStatesMsg == <<"all", 0, FALSE>>
OneMsg(channel, state) == <<"one", channel, state>>

\* request->send(200, ...) of a request that is served
Sent200 == <<"send", 200, FALSE>>

\* _ws->textAll(message)
TextAll(message) == [c \in WsClients |-> IF c \in webClients
                                         THEN Append(webInbox[c], message)
                                         ELSE webInbox[c]]

\* There is room for one more message in the record of every client
Room == \A c \in webClients : Len(webInbox[c]) < MaxInbox

\* setCallbacks(controlCallback, stateCallback, allStatesCallback)
web_setCallbacks ==
    /\ \E c \in BOOLEAN, st \in BOOLEAN, a \in BOOLEAN :
        /\ webControl' = c
        /\ webState' = st
        /\ webAll' = a
    /\ webReq' = [NoReq EXCEPT !.route = "setCallbacks"]
    /\ webResp' = NoResp
    /\ webCalls' = <<>>
    /\ UNCHANGED <<webClients, webInbox, webSeeded>>
    /\ WebFrame

\* request->send(code, ...) of a request that is rejected
Reject(code, error) ==
    /\ webResp' = [code |-> code, error |-> error]
    /\ webCalls' = <<>>
    /\ UNCHANGED webInbox

\* GET /api/status
handleGetStatus(hasChannel, text) ==
    /\ webReq' = [NoReq EXCEPT !.route = "status", !.hasChannel = hasChannel,
                               !.text = text, !.value = ToInt(text)]
    /\ LET channel == ToUint8(ToInt(text))
       IN IF ~hasChannel THEN Reject(400, "Missing channel parameter")
          ELSE IF ~isChannelValid(channel) THEN Reject(400, "Invalid channel")
          ELSE IF ~webState THEN Reject(500, "State callback not set")
          ELSE /\ webResp' = [code |-> 200, error |-> ""]
               /\ webCalls' = <<<<"state", channel, FALSE>>, Sent200>>
               /\ UNCHANGED webInbox

web_handleGetStatus ==
    /\ \E hasChannel \in BOOLEAN :
        \E text \in IF hasChannel THEN ChannelParams ELSE {<<>>} :
            handleGetStatus(hasChannel, text)
    /\ UNCHANGED <<webControl, webState, webAll, webClients, webSeeded>>
    /\ WebFrame

\* Mutant: the state change is broadcast before the control callback is called
setOutput_calls_broadcastFirst(channel, state) ==
    <<<<"broadcast", channel, state>>, <<"control", channel, state>>, Sent200>>

\* _controlCallback(channel, state); broadcastStateChange(channel, state);
\* request->send(200, ...)
setOutput_calls(channel, state) ==
    <<<<"control", channel, state>>, <<"broadcast", channel, state>>, Sent200>>

\* _controlCallback(channel, state); broadcastStateChange(channel, state);
\* of a WebSocket command
command_calls(channel, state) ==
    <<<<"control", channel, state>>, <<"broadcast", channel, state>>>>

\* POST /api/output
handleSetOutput(hasChannel, hasState, text, state) ==
    /\ webReq' = [NoReq EXCEPT !.route = "output", !.hasChannel = hasChannel,
                               !.hasState = hasState, !.text = text,
                               !.value = ToInt(text), !.state = state]
    /\ LET channel == ToUint8(ToInt(text))
       IN IF ~hasChannel \/ ~hasState THEN Reject(400, "Missing parameters")
          ELSE IF ~isChannelValid(channel) THEN Reject(400, "Invalid channel")
          ELSE IF ~webControl THEN Reject(500, "Control callback not set")
          ELSE /\ webResp' = [code |-> 200, error |-> ""]
               /\ webCalls' = setOutput_calls(channel, state)
               /\ webInbox' = TextAll(OneMsg(channel, state))

web_handleSetOutput ==
    /\ Room
    /\ \E hasChannel \in BOOLEAN, hasState \in BOOLEAN :
        \E text \in IF hasChannel THEN ChannelParams ELSE {<<>>},
           state \in IF hasState THEN BOOLEAN ELSE {FALSE} :
            handleSetOutput(hasChannel, hasState, text, state)
    /\ UNCHANGED <<webControl, webState, webAll, webClients, webSeeded>>
    /\ WebFrame

\* GET /api/states
web_handleGetAllStates ==
    /\ webReq' = [NoReq EXCEPT !.route = "states"]
    /\ IF ~webAll
       THEN Reject(500, "Callback not set")
       ELSE /\ webResp' = [code |-> 200, error |-> ""]
            /\ webCalls' = <<AllStatesMsg, Sent200>>
            /\ UNCHANGED webInbox
    /\ UNCHANGED <<webControl, webState, webAll, webClients, webSeeded>>
    /\ WebFrame

\* Mutant: nothing is sent to a client that connects
connect_inbox_empty(c) == <<>>

\* WS_EVT_CONNECT: what has been sent to client c when the handler returns
connect_inbox(c) == IF webAll THEN <<AllStatesMsg>> ELSE <<>>

\* handleWebSocketEvent, WS_EVT_CONNECT of a new client
web_ws_connect(c) ==
    /\ c \notin webClients
    /\ webClients' = webClients \cup {c}
    /\ webSeeded' = [webSeeded EXCEPT ![c] = webAll]
    /\ webInbox' = [webInbox EXCEPT ![c] = connect_inbox(c)]
    /\ webReq' = [NoReq EXCEPT !.route = "connect", !.value = c]
    /\ webResp' = NoResp
    /\ webCalls' = IF webAll THEN <<AllStatesMsg>> ELSE <<>>
    /\ UNCHANGED <<webControl, webState, webAll>>
    /\ WebFrame

\* handleWebSocketEvent, WS_EVT_DISCONNECT
web_ws_disconnect(c) ==
    /\ c \in webClients
    /\ webClients' = webClients \ {c}
    /\ webSeeded' = [webSeeded EXCEPT ![c] = FALSE]
    /\ webInbox' = [webInbox EXCEPT ![c] = <<>>]
    /\ webReq' = [NoReq EXCEPT !.route = "disconnect", !.value = c]
    /\ webResp' = NoResp
    /\ webCalls' = <<>>
    /\ UNCHANGED <<webControl, webState, webAll>>
    /\ WebFrame

\* handleWebSocketEvent, WS_EVT_DATA: frame is "command" (one final text frame
\* with a JSON object), "fragment" (part of a message, or binary) or "garbage"
\* (no JSON); a command may lack "channel" or "state"
web_ws_data(c) ==
    /\ c \in webClients
    /\ Room
    /\ \E frame \in {"command", "fragment", "garbage"},
          hasChannel \in BOOLEAN, hasState \in BOOLEAN :
       \E v \in IF hasChannel THEN JsonChannels ELSE {0},
          state \in IF hasState THEN {TRUE} ELSE {FALSE} :
        /\ frame # "command" => (~hasChannel /\ ~hasState)
        /\ webReq' = [NoReq EXCEPT !.route = frame, !.hasChannel = hasChannel,
                                   !.hasState = hasState, !.value = v, !.state = state]
        /\ \E channel \in JsonToUint8(v) :
            IF frame = "command" /\ hasChannel /\ hasState
               /\ isChannelValid(channel) /\ webControl
            THEN /\ webCalls' = command_calls(channel, state)
                 /\ webInbox' = TextAll(OneMsg(channel, state))
            ELSE /\ webCalls' = <<>>
                 /\ UNCHANGED webInbox
    /\ webResp' = NoResp
    /\ UNCHANGED <<webControl, webState, webAll, webClients, webSeeded>>
    /\ WebFrame

\* broadcastStateChange(channel, state), called by the application
web_broadcastStateChange ==
    /\ Room
    /\ \E channel \in {3}, state \in {TRUE} :
        /\ webInbox' = TextAll(OneMsg(channel, state))
        /\ webCalls' = <<<<"broadcast", channel, state>>>>
        /\ webReq' = [NoReq EXCEPT !.route = "app", !.value = channel, !.state = state]
    /\ webResp' = NoResp
    /\ UNCHANGED <<webControl, webState, webAll, webClients, webSeeded>>
    /\ WebFrame

InitWeb ==
    /\ Constructor("drv", ToggleChannelArg)
    /\ InitRest
    /\ harness = NoHarness
    /\ SrIdle
    /\ DlIdle
    /\ RcIdle
    /\ webMax \in WebChannelArgs
    /\ WebQuiet

NextWeb ==
    \/ web_setCallbacks
    \/ web_handleGetStatus
    \/ web_handleSetOutput
    \/ web_handleGetAllStates
    \/ \E c \in WsClients : web_ws_connect(c) \/ web_ws_disconnect(c) \/ web_ws_data(c)
    \/ web_broadcastStateChange

SpecWeb == InitWeb /\ [][NextWeb]_vars

\* ------------------------------------- examples/RelayControllerIntegration
\* The sketch: relayTask sets the controller up under relayMutex, and the web
\* server's task serves POST /api/output through setRelay, which takes
\* relayMutex with a timeout of 100 ms and does nothing when the take fails.
InoRelayTask == MainTask
InoWebTask == CHOOSE t \in Tasks : t # MainTask

\* The channels of the requests: the first and the last of the 8
InoChannelArgs == {0, 7}

\* The LatchController call a task makes at a position of the sketch
InoCall(label) ==
    IF label \in {"begin", "setAllOff"} THEN label
    ELSE IF label = "call" THEN "setLatch"
    ELSE "none"

InoGoto(t, label) == inoPc' = [inoPc EXCEPT ![t] = label]

InoFrame == UNCHANGED <<shared, locals, harness, srVars, dlVars, rcVars,
                        webMax, webControl, webState, webAll, webClients, webSeeded>>

\* relayTask: xSemaphoreTake(relayMutex, portMAX_DELAY)
ino_relay_take ==
    /\ inoPc[InoRelayTask] = "take"
    /\ inoMutex = NoTask
    /\ inoMutex' = InoRelayTask
    /\ InoGoto(InoRelayTask, "begin")
    /\ UNCHANGED <<webReq, webResp, webCalls, webInbox>>
    /\ InoFrame

\* relayTask: relays.begin(ACTIVE_LOW) has returned
ino_relay_begun ==
    /\ inoPc[InoRelayTask] = "begin"
    /\ pc[InoRelayTask] = "ret" /\ op[InoRelayTask] = "begin"
    /\ InoGoto(InoRelayTask, "setAllOff")
    /\ UNCHANGED <<inoMutex, webReq, webResp, webCalls, webInbox>>
    /\ InoFrame

\* relayTask: relays.setAllOff() has returned; xSemaphoreGive(relayMutex)
ino_relay_give ==
    /\ inoPc[InoRelayTask] = "setAllOff"
    /\ pc[InoRelayTask] = "ret" /\ op[InoRelayTask] = "setAllOff"
    /\ inoMutex' = NoTask
    /\ InoGoto(InoRelayTask, "done")
    /\ UNCHANGED <<webReq, webResp, webCalls, webInbox>>
    /\ InoFrame

\* POST /api/output?channel=..&state=.. arrives with a channel that passes
\* the check; handleSetOutput calls _controlCallback, which is setRelay
ino_request ==
    /\ inoPc[InoWebTask] = "idle"
    /\ Idle(InoWebTask)
    /\ \E channel \in InoChannelArgs, state \in BOOLEAN :
        /\ isChannelValid(channel) /\ webControl
        /\ webReq' = [NoReq EXCEPT !.route = "output", !.hasChannel = TRUE,
                                   !.hasState = TRUE, !.value = channel, !.state = state]
    /\ webResp' = NoResp
    /\ webCalls' = <<>>
    /\ InoGoto(InoWebTask, "take")
    /\ UNCHANGED <<inoMutex, webInbox>>
    /\ InoFrame

\* setRelay: xSemaphoreTake(relayMutex, pdMS_TO_TICKS(100)) == pdTRUE
ino_setRelay_take ==
    /\ inoPc[InoWebTask] = "take"
    /\ inoMutex = NoTask
    /\ inoMutex' = InoWebTask
    /\ InoGoto(InoWebTask, "call")
    /\ UNCHANGED <<webReq, webResp, webCalls, webInbox>>
    /\ InoFrame

\* setRelay: the take fails, relayMutex having been held for 100 ms; setRelay
\* returns
ino_setRelay_timeout ==
    /\ inoPc[InoWebTask] = "take"
    /\ inoMutex # NoTask
    /\ InoGoto(InoWebTask, "reply")
    /\ UNCHANGED <<inoMutex, webReq, webResp, webCalls, webInbox>>
    /\ InoFrame

\* setRelay: setLatchOn / setLatchOff has returned; xSemaphoreGive(relayMutex)
ino_setRelay_give ==
    /\ inoPc[InoWebTask] = "call"
    /\ pc[InoWebTask] = "ret" /\ op[InoWebTask] = "setLatch"
    /\ inoMutex' = NoTask
    /\ InoGoto(InoWebTask, "reply")
    /\ UNCHANGED <<webReq, webResp, webCalls, webInbox>>
    /\ InoFrame

\* handleSetOutput after _controlCallback has returned:
\* broadcastStateChange(channel, state); request->send(200, ...)
ino_reply ==
    /\ inoPc[InoWebTask] = "reply"
    /\ webCalls' = setOutput_calls(webReq.value, webReq.state)
    /\ webInbox' = TextAll(OneMsg(webReq.value, webReq.state))
    /\ webResp' = [code |-> 200, error |-> ""]
    /\ InoGoto(InoWebTask, "idle")
    /\ UNCHANGED <<inoMutex, webReq>>
    /\ InoFrame

\* The LatchController calls of the sketch: relays.begin(ACTIVE_LOW) and
\* relays.setAllOff() by relayTask, relays.setLatchOn(channel) or
\* relays.setLatchOff(channel) by setRelay
ino_begin ==
    /\ inoPc[InoRelayTask] = "begin"
    /\ begin(InoRelayTask, "ino")
    /\ arg'[InoRelayTask].mode = ACTIVE_LOW

ino_setAllOff ==
    /\ inoPc[InoRelayTask] = "setAllOff"
    /\ \/ setAllOff_call(InoRelayTask, "ino")
       \/ lockedOp_take(InoRelayTask, "setAllOff", "store")
       \/ setAllLatches_store(InoRelayTask, "setAllOff")
       \/ lockedOp_out(InoRelayTask, "setAllOff")
       \/ lockedOp_hw(InoRelayTask, "setAllOff")
       \/ lockedOp_give(InoRelayTask, "setAllOff", <<>>)

ino_setLatch ==
    /\ inoPc[InoWebTask] = "call"
    /\ setLatch(InoWebTask, "ino")
    /\ arg'[InoWebTask].state = webReq.state

\* A call returns to the sketch, which has gone on to its next statement
ino_Return(t) ==
    /\ op[t] # InoCall(inoPc[t])
    /\ Return(t)

\* The sketch after setup(): the controller of 8 channels and the web
\* controller of 8 channels are constructed, the callbacks are set, relayMutex
\* is created and both tasks are started
InitIno ==
    /\ Constructor("drv", 8)
    /\ InitRest
    /\ harness = NoHarness
    /\ SrIdle
    /\ DlIdle
    /\ RcIdle
    /\ webMax = 8
    /\ webControl = TRUE /\ webState = TRUE /\ webAll = TRUE
    /\ webClients = {}
    /\ webInbox = [c \in WsClients |-> <<>>]
    /\ webSeeded = [c \in WsClients |-> FALSE]
    /\ webReq = NoReq
    /\ webResp = NoResp
    /\ webCalls = <<>>
    /\ inoMutex = NoTask
    /\ inoPc = [t \in Tasks |-> IF t = InoRelayTask THEN "take" ELSE "idle"]

NextIno ==
    \/ ino_relay_take
    \/ ino_begin
    \/ ino_relay_begun
    \/ ino_setAllOff
    \/ ino_relay_give
    \/ ino_request
    \/ ino_setRelay_take
    \/ ino_setRelay_timeout
    \/ ino_setLatch
    \/ ino_setRelay_give
    \/ ino_reply
    \/ \E t \in Tasks : ino_Return(t)

SpecIno == InitIno /\ [][NextIno]_vars

\* ------------------------------------------------------------------ claims
Mutators ==
    {"setLatch", "toggleLatch", "setAllLatches", "setAllOn", "setAllOff", "setTriggerMode"}

\* The updateHardware calls task t's current call has made
HwCalls(t) == SelectSeq(calls[t], LAMBDA c : c[1] = "updateHardware")

\* Task t's current call has called driver.init()
CalledInit(t) == \E i \in 1..Len(calls[t]) : calls[t][i][1] = "init"

\* C1: on a controller whose begin() has succeeded, setLatch(i, s) with
\* i < channelCount returns true, and getLatchState(i) then returns s,
\* whatever the calls before it and whatever the trigger mode.
C1_SetThenGet ==
    \A t \in AllTasks :
        (pc[t] = "ret" /\ op[t] = "setLatch" /\ entry[t].initialized
            /\ arg[t].channel < channelCount)
        => (ret[t] = <<TRUE>> /\ GetLatchState(arg[t].channel) = arg[t].state)

\* setLatch(7, false) has returned on an initialized 8-channel ACTIVE_LOW
\* controller whose channel 7 was on
C1_Witness ==
    /\ pc[MainTask] = "ret" /\ op[MainTask] = "setLatch"
    /\ entry[MainTask].initialized /\ channelCount = 8
    /\ arg[MainTask].channel = 7 /\ ~arg[MainTask].state
    /\ 7 \in entry[MainTask].currentState
    /\ triggerMode = ACTIVE_LOW
    /\ ret[MainTask] = <<TRUE>>

\* C2: a setLatch, toggleLatch or getLatchState call with channel >=
\* channelCount is over in one step that returns false and changes no field
\* of the controller: not currentState, not the mutex, not the hardware; it
\* makes no driver call.
C2_InvalidChannel ==
    [][\A t \in AllTasks :
        (pc[t] = "idle" /\ pc'[t] # "idle"
            /\ op'[t] \in {"setLatch", "toggleLatch", "getLatchState"}
            /\ arg'[t].channel >= channelCount)
        => (pc'[t] = "ret" /\ ret'[t] = <<FALSE>> /\ calls'[t] = <<>>
            /\ UNCHANGED shared)]_vars

\* setLatch(8, true) has failed on an 8-channel controller whose state is not 0
C2_Witness ==
    /\ pc[MainTask] = "ret" /\ op[MainTask] = "setLatch"
    /\ channelCount = 8 /\ arg[MainTask].channel = 8 /\ arg[MainTask].state
    /\ ret[MainTask] = <<FALSE>>
    /\ currentState # {} /\ currentState = entry[MainTask].currentState

\* C3: once n tasks have each made their m toggleLatch(channel) calls, and
\* all have returned, the channel is its initial value XOR (n*m mod 2).
TogglesDone ==
    /\ harness.phase = "run"
    /\ \A t \in AllTasks : harness.remaining[t] = 0 /\ pc[t] = "idle"

C3_NoLostToggle ==
    TogglesDone =>
        (GetLatchState(harness.channel)
            = (harness.initial # ((harness.n * harness.m) % 2 = 1)))

\* three tasks have toggled a channel once each, and it has changed
C3_Witness ==
    /\ TogglesDone
    /\ harness.n = 3 /\ harness.m = 1
    /\ harness.initial /\ ~GetLatchState(harness.channel)

\* C4: every write to currentState and to triggerMode is made by a task that
\* holds a mutex of the controller.
HoldsLock(t) == \E m \in 1..MaxMutexes : holder[m] = t

C4_WritesUnderLock ==
    [][\A t \in AllTasks :
        (\/ (pc[t] \in {"mode", "store"} /\ pc'[t] # pc[t])
         \/ (pc[t] = "in_init" /\ pc'[t] = "out"))
        => HoldsLock(t)]_vars

\* C5: at most one task at a time is inside the driver (init or
\* updateHardware).
InDriver == {t \in AllTasks : pc[t] \in {"in_init", "in_hw"}}

C5_OneInDriver == Cardinality(InDriver) <= 1

\* C6: the data of every updateHardware call made by setLatch, toggleLatch,
\* setAllLatches (setAllOn, setAllOff) and setTriggerMode is getAllStates()
\* under ACTIVE_HIGH and, on its low channelCount bits, the complement of
\* getAllStates() under ACTIVE_LOW, with the state and mode of that moment.
PolarityOf(data) ==
    IF triggerMode = ACTIVE_HIGH
    THEN data = GetAllStates
    ELSE LowBits(data, channelCount) = LowBits(Bits \ GetAllStates, channelCount)

C6_PolarityOfCall ==
    \A t \in AllTasks :
        (pc[t] = "in_hw" /\ op[t] \in Mutators)
        => /\ hwData = <<calls[t][Len(calls[t])][2], channelCount>>
           /\ calls[t][Len(calls[t])][1] = "updateHardware"
           /\ PolarityOf(hwData[1])

\* toggleLatch is inside updateHardware on an 8-channel ACTIVE_LOW controller
\* with a channel on
C6_Witness ==
    /\ pc[MainTask] = "in_hw" /\ op[MainTask] = "toggleLatch"
    /\ triggerMode = ACTIVE_LOW /\ channelCount = 8
    /\ currentState = {0, 7}
    /\ hwData = <<Bits \ {0, 7}, 8>>

\* C7: getAllStates() is the same at every point of a setTriggerMode call as
\* before it; so setTriggerMode(ACTIVE_LOW) then setTriggerMode(ACTIVE_HIGH)
\* leave the logical mask as it was.
C7_ModeKeepsState ==
    \A t \in AllTasks :
        op[t] = "setTriggerMode" => GetAllStates = entry[t].currentState

\* setTriggerMode(ACTIVE_HIGH) has returned on a controller that was
\* ACTIVE_LOW, with a state that is not 0, after rendering it
C7_Witness ==
    /\ pc[MainTask] = "ret" /\ op[MainTask] = "setTriggerMode"
    /\ arg[MainTask].mode = ACTIVE_HIGH /\ entry[MainTask].triggerMode = ACTIVE_LOW
    /\ triggerMode = ACTIVE_HIGH
    /\ currentState # {}
    /\ Len(HwCalls(MainTask)) = 1

\* C8: when begin(mode) returns true, currentState is 0, triggerMode is mode,
\* initialized is true, and begin has made one updateHardware call, whose
\* low channelCount bits are all 0 for ACTIVE_HIGH and all 1 for ACTIVE_LOW.
C8_BeginRenders ==
    \A t \in AllTasks :
        (pc[t] = "ret" /\ op[t] = "begin" /\ ret[t] = <<TRUE>>)
        => /\ currentState = {} /\ triggerMode = arg[t].mode /\ initialized
           /\ Len(HwCalls(t)) = 1
           /\ HwCalls(t)[1][3] = channelCount
           /\ LowBits(HwCalls(t)[1][2], channelCount)
                = (IF arg[t].mode = ACTIVE_LOW THEN 0..(channelCount - 1) ELSE {})
           /\ hwData = <<HwCalls(t)[1][2], channelCount>>

\* begin(ACTIVE_LOW) has returned true on an 8-channel controller whose state
\* was not 0
C8_Witness ==
    /\ pc[MainTask] = "ret" /\ op[MainTask] = "begin" /\ ret[MainTask] = <<TRUE>>
    /\ arg[MainTask].mode = ACTIVE_LOW /\ channelCount = 8
    /\ entry[MainTask].currentState # {}
    /\ LowBits(hwData[1], 8) = 0..7

\* C9: a begin() on a controller without a driver, or whose driver.init()
\* returned false, returns false, leaves initialized and currentState as
\* they were, and makes no updateHardware call.
BeginFailed(t) ==
    /\ pc[t] = "ret" /\ op[t] = "begin"
    /\ driver = "nullptr" \/ (CalledInit(t) /\ ~initOk[t])

C9_BeginFails ==
    \A t \in AllTasks :
        BeginFailed(t)
        => /\ ret[t] = <<FALSE>>
           /\ initialized = entry[t].initialized
           /\ currentState = entry[t].currentState
           /\ HwCalls(t) = <<>>

\* begin() has failed in driver.init() on an uninitialized controller whose
\* state was not 0
C9_Witness ==
    /\ BeginFailed(MainTask) /\ driver = "drv"
    /\ ~entry[MainTask].initialized /\ ~initialized
    /\ currentState # {}

\* C10: while the last driver.init() has failed and the controller is
\* uninitialized, a mutating call leaves currentState and triggerMode as they
\* were, makes no updateHardware call, and returns false if it returns a bool.
C10_FailFast ==
    \A t \in AllTasks :
        (pc[t] = "ret" /\ op[t] \in Mutators /\ lastInit = "false" /\ ~initialized)
        => /\ currentState = entry[t].currentState
           /\ triggerMode = entry[t].triggerMode
           /\ HwCalls(t) = <<>>
           /\ (op[t] \in {"setLatch", "toggleLatch"} => ret[t] = <<FALSE>>)

\* C11: on a controller constructed with no driver, no call dereferences the
\* missing driver: every call ends in a failure result or has no effect.
C11_NoNullDeref == driver = "nullptr" => ~fault

\* C12: every bit of currentState at a position >= channelCount is zero.
C12_HighBitsZero == \A i \in currentState : i < channelCount

\* setAllLatches(0xFFFFFFFF) has returned on an 8-channel controller
C12_Witness ==
    /\ pc[MainTask] = "ret" /\ op[MainTask] = "setAllLatches"
    /\ arg[MainTask].mask = Bits /\ channelCount = 8
    /\ currentState = 0..7

\* C13: setAllLatches(m) returns (it has no failure result) and leaves
\* getAllStates() == m AND (2^channelCount - 1), for every mask m.
C13_SetAllMasks ==
    \A t \in AllTasks :
        (pc[t] = "ret" /\ op[t] = "setAllLatches")
        => /\ ret[t] = <<>>
           /\ GetAllStates = {i \in arg[t].mask : i < channelCount}

\* C14: after setAllOn() getAllStates() has exactly the low channelCount
\* bits set (so a second setAllOn() gives the same value), and after
\* setAllOff() getAllStates() is 0.
C14_SetAllOnOff ==
    \A t \in AllTasks :
        /\ (pc[t] = "ret" /\ op[t] = "setAllOn")
            => GetAllStates = {i \in Bits : i < channelCount}
        /\ (pc[t] = "ret" /\ op[t] = "setAllOff") => GetAllStates = {}

\* C15: when the controller is initialized and no task is inside a call, the
\* low channelCount bits of the value last passed to updateHardware are the
\* polarity translation of currentState under triggerMode.
C15_HardwareMatches ==
    (initialized /\ \A t \in AllTasks : pc[t] \in {"idle", "ret"})
    => /\ hwData # <<>>
       /\ LowBits(hwData[1], channelCount)
            = LowBits(OutputData(triggerMode, currentState), channelCount)

\* C16: once isInitialized() is true it stays true, whatever is called,
\* a later begin() whose driver.init() fails included.
C16_InitializedForever == [][IsInitialized => IsInitialized']_vars

\* a begin() on an initialized controller has failed in driver.init()
C16_Witness ==
    /\ BeginFailed(MainTask) /\ driver = "drv"
    /\ entry[MainTask].initialized /\ IsInitialized

\* C17: channelCount is within 1..32 after construction, for every
\* constructor argument, and no operation changes it.
C17_ChannelCountRange == channelCount \in 1..MaxChannels

\* The labels of ShiftRegisterDriver::updateHardware and shiftOut
UpdateLabels == {"u_latchLow", "s_clockLow", "s_data", "s_clockHigh", "s_end", "u_latchHigh"}

\* The writes to the clock and data pins among writes
ClockData(writes) == SelectSeq(writes, LAMBDA w : w[1] \in {"clock", "data"})

\* The clock and data writes of an n-bit MSB-first transfer of data: for bit
\* n-1 down to 0 clock LOW, data = bit, clock HIGH, then clock LOW
MsbFirst(data, n) ==
    [k \in 1..(3 * n + 1) |->
        IF (k - 1) % 3 = 1
        THEN <<"data", IF (n - 1 - ((k - 1) \div 3)) \in data THEN HIGH ELSE LOW>>
        ELSE IF (k - 1) % 3 = 2 THEN <<"clock", HIGH>> ELSE <<"clock", LOW>>]

IsPrefix(a, b) == Len(a) <= Len(b) /\ a = SubSeq(b, 1, Len(a))

\* C18: the clock and data writes of updateHardware(data, n) are, for the
\* bits n-1 down to 0 in that order, clock LOW, data = bit, clock HIGH, and
\* after the last bit clock LOW: at every point of the call they are a prefix
\* of that sequence and when shiftOut is done they are all of it.
C18_MsbFirst ==
    srPc \in UpdateLabels
    => /\ IsPrefix(ClockData(srWrites), MsbFirst(srData, channelCount))
       /\ srPc = "u_latchHigh"
            => /\ ClockData(srWrites) = MsbFirst(srData, channelCount)
               /\ pinLevel["clock"] = LOW

\* shiftOut has sent 0b00001010 to 8 channels
C18_Witness ==
    /\ srPc = "u_latchHigh" /\ channelCount = 8 /\ srData = {1, 3}
    /\ Len(srWrites) >= 3 * 8 + 1

\* C19: in updateHardware of a driver with a latch line, the latch line is
\* LOW at every rising clock edge, and the latch line rises, and the output
\* register changes, only in the last write of the call, which loads the
\* whole word (the low n bits of data).
C19_LatchAfterShift ==
    [][(srLatch /\ srPc \in UpdateLabels)
        => /\ (pinLevel["clock"] # HIGH /\ pinLevel'["clock"] = HIGH)
                => pinLevel["latch"] = LOW
           /\ (outReg' # outReg \/ (pinLevel["latch"] # HIGH /\ pinLevel'["latch"] = HIGH))
                => srPc = "u_latchHigh"
           /\ srPc = "u_latchHigh"
                => /\ pinLevel["latch"] = LOW /\ pinLevel'["latch"] = HIGH
                   /\ outReg' = LowBits(srData, channelCount)]_vars

\* an update has returned after loading 0b00001010 into the outputs of an
\* 8-channel register with a latch line
C19_Witness ==
    /\ srLatch /\ srPc = "idle" /\ srRendered /\ channelCount = 8
    /\ pinLevel["latch"] = HIGH
    /\ srData = {1, 3} /\ outReg = {1, 3}
    /\ srWrites # <<>> /\ srWrites[Len(srWrites)] = <<"latch", HIGH>>

\* The level of a register output that means OFF under a trigger mode
OffLevel(mode) == IF mode = ACTIVE_LOW THEN HIGH ELSE LOW

\* C20: after init() and before the first updateHardware, each of the n
\* register outputs is at the level that means OFF for the mode of begin.
C20_IdlePattern ==
    (srInited /\ ~srRendered /\ srPc = "idle")
    => \A i \in 0..(channelCount - 1) :
           (IF i \in Outputs THEN HIGH ELSE LOW) = OffLevel(triggerMode)

\* The labels of DirectLatchDriver::updateHardware and of DirectLatchDriver::init
DlUpdateLabels == {"u_enableHigh", "u_line", "u_enableLow"}
DlInitLabels == {"i_enable", "i_line", "i_return"}

\* The writes of a transfer of data to n data lines: enable HIGH, line i at
\* bit i of data for i = 0..n-1, enable LOW
DirectTrace(data, n) ==
    [k \in 1..(n + 2) |->
        IF k = 1 THEN <<"enable", 0, HIGH>>
        ELSE IF k = n + 2 THEN <<"enable", 0, LOW>>
        ELSE <<"line", k - 2, IF (k - 2) \in data THEN HIGH ELSE LOW>>]

\* C21: DirectLatchDriver.updateHardware(data, n) writes enable HIGH, then
\* the n data lines, then enable LOW: its writes are at every point a prefix
\* of that sequence, all n lines have been written when enable is about to go
\* to hold, and outside updateHardware the enable line is not left HIGH.
C21_EnableOrder ==
    /\ dlPc \in DlUpdateLabels
         => IsPrefix(dlWrites, DirectTrace(dlData, channelCount))
    /\ dlPc = "u_enableLow" => Len(dlWrites) = channelCount + 1
    /\ dlPc \notin DlUpdateLabels => dlEnable # HIGH

\* The rising clock edges, and the data line writes, among writes
ClockEdges(writes) == SelectSeq(writes, LAMBDA w : w = <<"clock", HIGH>>)
LineWrites(writes) == SelectSeq(writes, LAMBDA w : w[1] = "line")

\* C22: with channelCount in 1..32, when the transfer of updateHardware(data,
\* channelCount) is done the ShiftRegisterDriver has made channelCount rising
\* clock edges and the DirectLatchDriver has written channelCount data lines,
\* whatever number of lines the driver was constructed with.
C22_ExactlyChannelCount ==
    channelCount >= 1
    => /\ srPc = "u_latchHigh" => Len(ClockEdges(srWrites)) = channelCount
       /\ dlPc = "u_enableLow" => Len(LineWrites(dlWrites)) = channelCount

\* The writes of DirectLatchDriver::init on n lines: enable LOW, then every
\* line LOW
DirectInitTrace(n) ==
    [k \in 1..(n + 1) |-> IF k = 1 THEN <<"enable", 0, LOW>> ELSE <<"line", k - 2, LOW>>]

\* C23: DirectLatchDriver.init() writes enable LOW first, before it
\* configures or writes a data line, then writes every data line LOW, and the
\* enable line is never HIGH during init.
C23_InitHolds ==
    dlPc \in DlInitLabels
    => /\ IsPrefix(dlWrites, DirectInitTrace(numChannels))
       /\ dlEnable # HIGH
       /\ dlPc \in {"i_line", "i_return"}
            => /\ dlWrites # <<>> /\ dlOutput.enable /\ dlEnable = LOW
               /\ dlOutput.lines \subseteq {i \in Lines : i < numChannels}
       /\ dlPc = "i_return" => dlWrites = DirectInitTrace(numChannels)

\* init() has written all the lines of a driver whose lines an earlier update
\* had driven HIGH
C23_Witness ==
    /\ dlPc = "i_return" /\ dlRendered /\ numChannels = MaxLines
    /\ dlData = Bits
    /\ \A i \in Lines : i < numChannels => dlLevel[i] = LOW
    /\ dlLatched = {i \in Lines : i < numChannels}

\* C24: when updateHardware(data, n) completes, output i is HIGH exactly when
\* bit i of data is set, for every i < n: the register outputs of the
\* ShiftRegisterDriver and the latch outputs of the DirectLatchDriver.
C24_OutputsAreData ==
    [][/\ (srPc = "u_latchHigh" /\ srPc' = "idle")
            => LowBits(Outputs', channelCount) = LowBits(srData, channelCount)
       /\ (dlPc = "u_enableLow" /\ dlPc' = "idle")
            => LowBits(dlLatched', channelCount) = LowBits(dlData, channelCount)]_vars

\* The levels the data pin was given, in the order of the transfer
ClockedOut(writes) ==
    LET d == SelectSeq(writes, LAMBDA w : w[1] = "data")
    IN [k \in 1..Len(d) |-> d[k][2]]

\* The complement of the low n bits of state, bit n-1 first
ComplementMsbFirst(state, n) ==
    [k \in 1..n |-> IF (n - k) \in state THEN LOW ELSE HIGH]

\* No call of the one task is running
Settled == pc[MainTask] \in {"idle", "ret"}

\* C25: on a controller over a ShiftRegisterDriver in ACTIVE_LOW mode, between
\* calls, the channelCount bits the last update clocked out, read in the
\* order sent (bit channelCount-1 first), are the complement of the low
\* channelCount bits of getAllStates().
C25_ActiveLowEndToEnd ==
    (driver = "shift" /\ triggerMode = ACTIVE_LOW /\ srRendered /\ Settled)
    => ClockedOut(srWrites) = ComplementMsbFirst(GetAllStates, channelCount)

\* 8 channels, ACTIVE_LOW, setLatch(0, true) has returned: 1,1,1,1,1,1,1,0
\* was clocked out and getAllStates() is 0b00000001
C25_Witness ==
    /\ driver = "shift" /\ channelCount = 8 /\ triggerMode = ACTIVE_LOW
    /\ initialized
    /\ pc[MainTask] = "ret" /\ op[MainTask] = "setLatch"
    /\ arg[MainTask].channel = 0 /\ arg[MainTask].state
    /\ ret[MainTask] = <<TRUE>>
    /\ GetAllStates = {0}
    /\ ClockedOut(srWrites) = <<HIGH, HIGH, HIGH, HIGH, HIGH, HIGH, HIGH, LOW>>
    /\ Outputs = {1, 2, 3, 4, 5, 6, 7}

\* C26: on a controller over a DirectLatchDriver with as many lines as the
\* controller has channels, in ACTIVE_HIGH mode, setAllLatches(m) writes enable
\* HIGH, then line i HIGH exactly when bit i of m is set for i = 0 up to
\* channelCount-1, then enable LOW, and leaves getAllStates() equal to the low
\* channelCount bits of m.
C26_DirectEndToEnd ==
    (/\ driver = "direct" /\ numChannels = channelCount
     /\ triggerMode = ACTIVE_HIGH
     /\ pc[MainTask] = "ret" /\ op[MainTask] = "setAllLatches")
    => /\ dlWrites = DirectTrace(arg[MainTask].mask, channelCount)
       /\ GetAllStates = LowBits(arg[MainTask].mask, channelCount)

\* The tasks of the run have made all their calls
RcAllDone ==
    \A t \in RelayTasks :
        /\ rcPc[t] = "idle"
        /\ t <= rcHarness.tasks => rcDone[t] = rcHarness.calls

\* C27: after begin(), when n tasks have each called toggleRelay(i) m times,
\* getRelayState(i) is its value before the tasks started XOR (n*m mod 2);
\* and when tasks have called setRelayOn and setRelayOff each on a channel of
\* its own, every channel has the value its task set last.
C27_ThreadSafe ==
    /\ (rcHarness.scenario = "toggle" /\ RcAllDone)
        => (GetRelayState(rcHarness.channel)
              <=> (rcHarness.initial <=> (rcHarness.tasks * rcHarness.calls) % 2 = 0))
    /\ (rcHarness.scenario = "set" /\ RcAllDone)
        => \A t \in RelayTasks :
              rcLast[t] # "none" => (GetRelayState(t - 1) <=> rcLast[t] = "setRelayOn")

\* text is a decimal integer: digits, or a sign and digits
IsInteger(text) ==
    LET digits == IF text # <<>> /\ text[1] = "-" THEN SubSeq(text, 2, Len(text)) ELSE text
    IN digits # <<>> /\ \A i \in 1..Len(digits) : IsDigit(digits[i])

\* The last request was GET /api/status or POST /api/output with all its
\* parameters
HttpWithChannel ==
    \/ webReq.route = "status" /\ webReq.hasChannel
    \/ webReq.route = "output" /\ webReq.hasChannel /\ webReq.hasState

\* C28: a request to /api/output or /api/status whose channel parameter is an
\* integer >= maxChannels, of whatever size, is answered 400 "Invalid channel"
\* and calls no callback.
C28_InvalidChannelRejected ==
    (HttpWithChannel /\ IsInteger(webReq.text) /\ webReq.value >= webMax)
    => /\ webResp = [code |-> 400, error |-> "Invalid channel"]
       /\ webCalls = <<>>

C30_SeedFirst ==
    \A c \in webClients :
        webSeeded[c] => (webInbox[c] # <<>> /\ webInbox[c][1] = AllStatesMsg)

\* A client has received the states and then a single-channel message
C30_Witness ==
    \E c \in webClients :
        /\ webSeeded[c]
        /\ Len(webInbox[c]) = 2
        /\ webInbox[c][1] = AllStatesMsg
        /\ webInbox[c][2][1] = "one"

\* Task t's setTriggerMode writes the mode in this step
WritesMode(t) == op[t] = "setTriggerMode" /\ pc[t] = "store" /\ pc'[t] = "out"

\* Task t's setTriggerMode returns in this step
ModeReturns(t) == op[t] = "setTriggerMode" /\ pc[t] # "ret" /\ pc'[t] = "ret"

\* C31: a setTriggerMode(mode) call that finds the mode unchanged returns with
\* no driver call and no change; one that writes the mode writes a mode that
\* differs from the controller's at that moment, and returns after exactly one
\* updateHardware call with the data of the unchanged state under the new
\* mode; for every task of the concurrent runs.
C31_ModeChangeRenders ==
    [][\A t \in Tasks :
        /\ WritesMode(t) => (triggerMode # arg[t].mode /\ triggerMode' = arg[t].mode)
        /\ (ModeReturns(t) /\ pc[t] = "check")
              => (calls'[t] = <<>> /\ UNCHANGED <<currentState, triggerMode, hwData>>)
        /\ (ModeReturns(t) /\ pc[t] # "check")
              => /\ Len(calls'[t]) = 1
                 /\ calls'[t][1] = <<"updateHardware", outputData[t], channelCount>>]_vars

\* C32: when toggleLatch(i) with i < channelCount returns, it returns true and
\* currentState is the state at the call with bit i flipped and no other bit
\* changed; that is the state setLatch(i, NOT getLatchState(i)) leaves, and
\* flipping bit i once more gives the state at the call again.
C32_ToggleFlips ==
    \A t \in AllTasks :
        (pc[t] = "ret" /\ op[t] = "toggleLatch" /\ arg[t].channel < channelCount)
        => LET i == arg[t].channel
               before == entry[t].currentState
           IN /\ ret[t] = <<TRUE>>
              /\ (i \in GetAllStates) = (i \notin before)
              /\ GetAllStates \ {i} = before \ {i}
              /\ GetAllStates = setLatch_value(before, i, i \notin before)
              /\ toggleLatch_value(GetAllStates, i) = before

\* toggleLatch(1) has returned on an initialized controller whose channel 1
\* was on and whose channel 0 was on too
C32_Witness ==
    /\ pc[MainTask] = "ret" /\ op[MainTask] = "toggleLatch"
    /\ entry[MainTask].initialized
    /\ arg[MainTask].channel = 1
    /\ entry[MainTask].currentState = {0, 1}
    /\ GetAllStates = {0}
    /\ ret[MainTask] = <<TRUE>>

\* C33: no step of a setLatch(i, s) or toggleLatch(i) call with i <
\* channelCount changes a bit of currentState other than bit i, the trigger
\* mode, the channel count or the initialized flag; no step of a
\* setAllLatches (setAllOn, setAllOff) call changes the trigger mode, the
\* channel count or the initialized flag.
C33_FrameOfSetters ==
    [][\A t \in AllTasks :
        /\ (op[t] \in {"setLatch", "toggleLatch"} /\ arg[t].channel < channelCount)
              => /\ currentState' \ {arg[t].channel} = currentState \ {arg[t].channel}
                 /\ UNCHANGED <<triggerMode, channelCount, initialized>>
        /\ op[t] \in BulkOps => UNCHANGED <<triggerMode, channelCount, initialized>>]_vars

\* setLatch(1, true) has returned on an initialized ACTIVE_LOW controller
\* whose channel 0 was on: channel 0 is still on
C33_Witness ==
    /\ pc[MainTask] = "ret" /\ op[MainTask] = "setLatch"
    /\ arg[MainTask].channel = 1 /\ arg[MainTask].state
    /\ entry[MainTask] = [currentState |-> {0}, triggerMode |-> ACTIVE_LOW,
                          initialized |-> TRUE]
    /\ GetAllStates = {0, 1}
    /\ triggerMode = ACTIVE_LOW /\ initialized

\* C34: no task takes the mutex while it holds one, and a task whose call has
\* returned holds no mutex, so that every mutex is free when no call is in
\* progress; for the tasks of the concurrent runs.
C34_LockReleased ==
    [][\A t \in AllTasks :
        /\ (pc[t] = "take" /\ pc'[t] # "take") => ~HoldsLock(t)
        /\ pc'[t] \in {"idle", "ret"} => \A m \in 1..MaxMutexes : holder'[m] # t]_vars

\* C35: on a 32-channel controller the channel mask is all ones: setAllOn()
\* leaves getAllStates() == 0xFFFFFFFF and setAllLatches(m) leaves
\* getAllStates() == m, for every mask m.
C35_FullWidthMask ==
    \A t \in AllTasks :
        (pc[t] = "ret" /\ channelCount = MaxChannels)
        => /\ op[t] = "setAllOn" => GetAllStates = Bits
           /\ op[t] = "setAllLatches" => GetAllStates = arg[t].mask

\* C36: when the first begin() of a fresh relay controller returns, the
\* register outputs are the polarity translation of 0x00 under the trigger
\* mode begin() was given.
C36_BeginSwitchesOff ==
    [][(~rcInitialized /\ rcInitialized') => rcOut' = RcOutput(rcMode', {})]_vars

\* C37: whatever the interleaving of begin() calls, at most one mutex is ever
\* created, and once the controller has a mutex takeLock and giveLock keep
\* using that one.
C37_OneMutex ==
    [][mutexes' <= 1 /\ (lock # nullptr => lock' = lock)]_vars

\* The last control command named a channel below maxChannels while a control
\* callback was registered: POST /api/output, or a WebSocket command
AcceptedCommand(route) ==
    /\ webReq.route = route /\ webReq.hasChannel /\ webReq.hasState
    /\ webReq.value \in 0..(webMax - 1) /\ webControl

\* C38: an accepted control command calls the control callback exactly once
\* with the requested (channel, state) and then broadcasts that (channel,
\* state) exactly once, to every connected client; POST /api/output sends its
\* 200 response after both.
C38_ControlThenBroadcast ==
    LET control == <<"control", webReq.value, webReq.state>>
        broadcast == <<"broadcast", webReq.value, webReq.state>>
        told == \A c \in webClients :
                    /\ webInbox[c] # <<>>
                    /\ webInbox[c][Len(webInbox[c])] = OneMsg(webReq.value, webReq.state)
    IN /\ AcceptedCommand("output")
            => (webResp.code = 200 /\ webCalls = <<control, broadcast, Sent200>> /\ told)
       /\ AcceptedCommand("command")
            => (webCalls = <<control, broadcast>> /\ told)

\* POST /api/output?channel=3&state=1 has been served while a client was
\* connected: callback, broadcast to the client, response
C38_Witness ==
    /\ AcceptedCommand("output") /\ webReq.value = 3 /\ webReq.state
    /\ webResp.code = 200
    /\ webCalls = <<<<"control", 3, TRUE>>, <<"broadcast", 3, TRUE>>, Sent200>>
    /\ \E c \in webClients : webInbox[c] = <<AllStatesMsg, OneMsg(3, TRUE)>>

\* C39: in the RelayControllerIntegration sketch, when POST /api/output
\* answers success for (channel, state) and broadcasts it, getLatchState(channel)
\* equals state: a request whose take of relayMutex timed out is not answered
\* as a success.
C39_SuccessMeansApplied ==
    [][(inoPc[InoWebTask] = "reply" /\ webResp'.code = 200
        /\ webCalls' = setOutput_calls(webReq.value, webReq.state))
       => (GetLatchState(webReq.value)' <=> webReq.state)]_vars

\* This step is a digitalWrite to pin
Written(pin) ==
    /\ Len(srWrites') = Len(srWrites) + 1
    /\ srWrites'[Len(srWrites')][1] = pin

\* C40: the output-enable line is written only by init()'s
\* digitalWrite(oePin, LOW), never by updateHardware; a driver constructed
\* without a latch line writes neither a latch nor an output-enable pin and
\* configures neither, in init() and in updateHardware.
C40_EnableOnlyInInit ==
    [][/\ Written("oe") => (srPc = "i_oe" /\ srOe /\ pinLevel'["oe"] = LOW)
       /\ ~srLatch => /\ ~Written("latch") /\ ~Written("oe")
                      /\ pinLevel'["latch"] = "Z" /\ pinLevel'["oe"] = "Z"
                      /\ pinOutput' \cap {"latch", "oe"} = {}]_vars

\* updateHardware has returned on a driver with an output-enable line: the
\* line is LOW from init() and none of updateHardware's writes went to it
C40_Witness ==
    /\ srLatch /\ srOe /\ srInited /\ srRendered /\ srPc = "idle"
    /\ channelCount = 8
    /\ pinLevel["oe"] = LOW
    /\ srWrites # <<>>
    /\ srWrites[1] = <<"latch", LOW>>
    /\ \A i \in 1..Len(srWrites) : srWrites[i][1] # "oe"

====
